---- MODULE Spec2Model ----
(***************************************************************************)
(* A model of the topictrends engine: the dense-id map, the CSR adjacency, *)
(* the graph builder, the breadth-first walks of the wiki graph, the       *)
(* page-view engine with its day store and top-categories cache, and the   *)
(* engine registry of the web service.                                     *)
(*                                                                         *)
(* Vectors are sequences; a Rust index i is the TLA+ index i + 1, so dense *)
(* ids stay 0-based as in the code.  Option<T> is a sequence of length 0   *)
(* (None) or 1 (Some).  Dates are day numbers.  Instants are seconds.      *)
(***************************************************************************)
EXTENDS Integers, Sequences, FiniteSets, TLC

VARIABLES
    \* the snapshot files of one wiki (columns of ids / rows of id pairs)
    categories, articles, category_graph, article_category,
    \* the WikiGraph built from them (NoGraph before the build)
    graph,
    \* one breadth-first walk in progress (locals of the traversal)
    walk,
    \* the pageview .bin files on disk: date -> Option<Vec<u32>>
    files,
    \* PageViewEngine.daily_views and PageViewEngine.top_categories_cache
    daily_views, top_categories_cache,
    \* the monotonic clock (Instant::now) and the wall-clock date (Local::now)
    now, today,
    \* the last engine query and what it returned
    last,
    \* AppState.engines (wiki -> engine handle) and its RwLock
    engines, engines_lock,
    \* per blocking task: its position in get_or_build_engine and its locals
    task,
    \* every engine ever constructed, in construction order (the wiki of each)
    constructed,
    \* per wiki: whether its snapshot files can be read and parsed
    snapshot_ok

buildVars == <<categories, articles, category_graph, article_category, graph>>
walkVars == <<walk>>
engineVars == <<files, daily_views, top_categories_cache, now, today, last>>
registryVars == <<engines, engines_lock, task, constructed, snapshot_ok>>
vars == <<categories, articles, category_graph, article_category, graph, walk,
          files, daily_views, top_categories_cache, now, today, last,
          engines, engines_lock, task, constructed, snapshot_ok>>

----------------------------------------------------------------------------
(* Option, and small sequence helpers                                      *)

None == <<>>
Some(v) == <<v>>
IsSome(o) == Len(o) = 1
Unwrap(o) == o[1]

Range(s) == {s[i] : i \in 1..Len(s)}

SeqsUpTo(S, n) == UNION {[1..k -> S] : k \in 0..n}

\* the sum of f[x] over x in S (f a function)
RECURSIVE SetSum(_, _)
SetSum(S, f) ==
    IF S = {} THEN 0
    ELSE LET x == CHOOSE y \in S : TRUE IN f[x] + SetSum(S \ {x}, f)

----------------------------------------------------------------------------
(* DirectMap: topictrend_core/src/direct_map.rs                            *)

\* the width the model gives a u32 (TLC's integers cannot hold 2^32 - 1);
\* every id and view count of the model fits it
U32_BITS == 4
U32_MAX == 2 ^ U32_BITS - 1

\* DirectMap::new: max_size + 1 slots, all unset
DirectMap_new(max_size) == [i \in 1..(max_size + 1) |-> U32_MAX]

\* DirectMap::insert: resize when the key is beyond the vector, then store
DirectMap_insert(mapping, key, value) ==
    LET resized == IF key >= Len(mapping)
                   THEN mapping \o [i \in 1..(key + 1 - Len(mapping)) |-> U32_MAX]
                   ELSE mapping
    IN [resized EXCEPT ![key + 1] = value]

\* DirectMap::get: None when out of bounds or when the slot holds the sentinel
DirectMap_get(mapping, key) ==
    IF key < Len(mapping) /\ mapping[key + 1] # U32_MAX
    THEN Some(mapping[key + 1])
    ELSE None

----------------------------------------------------------------------------
(* CsrAdjacency: topictrend_core/src/csr_adjacency.rs                      *)

\* the outcome of a slice index out of range (a panic)
Panic == <<-1>>

\* pass 1: counts[src] += 1 for every pair whose source is in range
RECURSIVE count_degrees(_, _, _, _)
count_degrees(num_nodes, pairs, i, counts) ==
    IF i > Len(pairs) THEN counts
    ELSE LET src == pairs[i][1] IN
         count_degrees(num_nodes, pairs, i + 1,
                       IF src < num_nodes
                       THEN [counts EXCEPT ![src + 1] = @ + 1]
                       ELSE counts)

\* the cumulative sum: offsets = [0, c0, c0 + c1, ...]
RECURSIVE build_offsets(_, _, _, _)
build_offsets(counts, i, current_offset, offsets) ==
    IF i > Len(counts) THEN offsets
    ELSE build_offsets(counts, i + 1, current_offset + counts[i],
                       Append(offsets, current_offset + counts[i]))

\* pass 2 with a cursor that stays where it is
RECURSIVE populate_targets_no_advance(_, _, _, _, _)
populate_targets_no_advance(num_nodes, pairs, i, targets, write_cursors) ==
    IF i > Len(pairs) THEN targets
    ELSE LET src == pairs[i][1]
             dst == pairs[i][2]
         IN IF src < num_nodes
            THEN LET pos == write_cursors[src + 1] IN
                 populate_targets_no_advance(num_nodes, pairs, i + 1,
                                  [targets EXCEPT ![pos + 1] = dst], write_cursors)
            ELSE populate_targets_no_advance(num_nodes, pairs, i + 1, targets, write_cursors)

\* pass 2: write each destination at its source's cursor and advance it
RECURSIVE populate_targets(_, _, _, _, _)
populate_targets(num_nodes, pairs, i, targets, write_cursors) ==
    IF i > Len(pairs) THEN targets
    ELSE LET src == pairs[i][1]
             dst == pairs[i][2]
         IN IF src < num_nodes
            THEN LET pos == write_cursors[src + 1] IN
                 populate_targets(num_nodes, pairs, i + 1,
                                  [targets EXCEPT ![pos + 1] = dst],
                                  [write_cursors EXCEPT ![src + 1] = @ + 1])
            ELSE populate_targets(num_nodes, pairs, i + 1, targets, write_cursors)

\* CsrAdjacency::from_pairs
from_pairs(num_nodes, pairs) ==
    LET counts == count_degrees(num_nodes, pairs, 1, [i \in 1..num_nodes |-> 0])
        offsets == build_offsets(counts, 1, 0, <<0>>)
        total_edges == offsets[num_nodes + 1]
        targets == populate_targets(num_nodes, pairs, 1,
                                    [i \in 1..total_edges |-> 0], offsets)
    IN [offsets |-> offsets, targets |-> targets]

\* CsrAdjacency::get: offsets.get(id) guards the start, offsets[id + 1] is
\* indexed unchecked
CsrAdjacency_get(csr, id) ==
    IF id < Len(csr.offsets)
    THEN IF id + 1 < Len(csr.offsets)
         THEN SubSeq(csr.targets, csr.offsets[id + 1] + 1, csr.offsets[id + 2])
         ELSE Panic
    ELSE <<>>

----------------------------------------------------------------------------
(* GraphBuilder: topictrend_core/src/graphbuilder.rs                       *)

\* GraphBuilder::load_nodes: dense ids in source order
RECURSIVE load_nodes_loop(_, _, _, _, _)
load_nodes_loop(ids, i, dense_to_original, mapper, dense_counter) ==
    IF i > Len(ids)
    THEN [dense_to_original |-> dense_to_original, mapper |-> mapper]
    ELSE load_nodes_loop(ids, i + 1, Append(dense_to_original, ids[i]),
                         DirectMap_insert(mapper, ids[i], dense_counter),
                         dense_counter + 1)

load_nodes(ids) == load_nodes_loop(ids, 1, <<>>, DirectMap_new(Len(ids)), 0)

\* collect_edges with the backward pair pushed unreversed
RECURSIVE collect_edges_unreversed(_, _, _, _, _)
collect_edges_unreversed(rows, i, cat_original_to_dense, forward_edges, backward_edges) ==
    IF i > Len(rows)
    THEN [forward_edges |-> forward_edges, backward_edges |-> backward_edges]
    ELSE LET p == DirectMap_get(cat_original_to_dense, rows[i][1])
             c == DirectMap_get(cat_original_to_dense, rows[i][2])
         IN IF IsSome(p) /\ IsSome(c)
            THEN collect_edges_unreversed(rows, i + 1, cat_original_to_dense,
                               Append(forward_edges, <<Unwrap(p), Unwrap(c)>>),
                               Append(backward_edges, <<Unwrap(p), Unwrap(c)>>))
            ELSE collect_edges_unreversed(rows, i + 1, cat_original_to_dense,
                               forward_edges, backward_edges)

\* the hierarchy scan: rows with an unknown id are skipped, the others give
\* one forward and one backward pair
RECURSIVE collect_edges(_, _, _, _, _)
collect_edges(rows, i, cat_original_to_dense, forward_edges, backward_edges) ==
    IF i > Len(rows)
    THEN [forward_edges |-> forward_edges, backward_edges |-> backward_edges]
    ELSE LET p == DirectMap_get(cat_original_to_dense, rows[i][1])
             c == DirectMap_get(cat_original_to_dense, rows[i][2])
         IN IF IsSome(p) /\ IsSome(c)
            THEN collect_edges(rows, i + 1, cat_original_to_dense,
                               Append(forward_edges, <<Unwrap(p), Unwrap(c)>>),
                               Append(backward_edges, <<Unwrap(c), Unwrap(p)>>))
            ELSE collect_edges(rows, i + 1, cat_original_to_dense,
                               forward_edges, backward_edges)

\* the membership scan: the article goes into the category's bitmap; the
\* push onto article_cats[a_dense] is commented out in the source (FIXME)
RECURSIVE collect_members(_, _, _, _, _, _)
collect_members(rows, i, art_original_to_dense, cat_original_to_dense, cat_articles, article_cats) ==
    IF i > Len(rows)
    THEN [cat_articles |-> cat_articles, article_cats |-> article_cats]
    ELSE LET a == DirectMap_get(art_original_to_dense, rows[i][1])
             c == DirectMap_get(cat_original_to_dense, rows[i][2])
         IN IF IsSome(a) /\ IsSome(c)
            THEN collect_members(rows, i + 1, art_original_to_dense,
                                 cat_original_to_dense,
                                 [cat_articles EXCEPT ![Unwrap(c) + 1] = @ \cup {Unwrap(a)}],
                                 article_cats)
            ELSE collect_members(rows, i + 1, art_original_to_dense,
                                 cat_original_to_dense, cat_articles, article_cats)

\* GraphBuilder::build
build(cat_ids, art_ids, hierarchy_rows, membership_rows) ==
    LET cats == load_nodes(cat_ids)
        arts == load_nodes(art_ids)
        num_cats == Len(cats.dense_to_original)
        num_arts == Len(arts.dense_to_original)
        edges == collect_edges(hierarchy_rows, 1, cats.mapper, <<>>, <<>>)
        members == collect_members(membership_rows, 1, arts.mapper, cats.mapper,
                                   [i \in 1..num_cats |-> {}],
                                   [i \in 1..num_arts |-> <<>>])
    IN [children |-> from_pairs(num_cats, edges.forward_edges),
        parents |-> from_pairs(num_cats, edges.backward_edges),
        cat_articles |-> members.cat_articles,
        article_cats |-> members.article_cats,
        cat_dense_to_original |-> cats.dense_to_original,
        cat_original_to_dense |-> cats.mapper,
        art_dense_to_original |-> arts.dense_to_original,
        art_original_to_dense |-> arts.mapper]

----------------------------------------------------------------------------
(* WikiGraph: the read-only topology queries, keyed on external ids        *)

\* self.children.get(curr) / self.parents.get(dense_id): the neighbor list
neighbors(adjacency, dense_id) == CsrAdjacency_get(adjacency, dense_id)

\* dense ids back to external ids
to_original(dense_to_original, dense_ids) ==
    [i \in 1..Len(dense_ids) |-> dense_to_original[dense_ids[i] + 1]]

\* WikiGraph::get_child_categories
get_child_categories(g, wiki_cat_id) ==
    LET dense_id == DirectMap_get(g.cat_original_to_dense, wiki_cat_id) IN
    IF dense_id = None THEN <<>>
    ELSE to_original(g.cat_dense_to_original, neighbors(g.children, Unwrap(dense_id)))

\* WikiGraph::get_parent_categories
get_parent_categories(g, wiki_cat_id) ==
    LET dense_id == DirectMap_get(g.cat_original_to_dense, wiki_cat_id) IN
    IF dense_id = None THEN <<>>
    ELSE to_original(g.cat_dense_to_original, neighbors(g.parents, Unwrap(dense_id)))

\* WikiGraph::get_categories_for_article
get_categories_for_article(g, wiki_article_id) ==
    LET dense_art_id == DirectMap_get(g.art_original_to_dense, wiki_article_id) IN
    IF dense_art_id = None THEN <<>>
    ELSE IF Unwrap(dense_art_id) < Len(g.article_cats)
         THEN to_original(g.cat_dense_to_original, g.article_cats[Unwrap(dense_art_id) + 1])
         ELSE <<>>

\* ArticleService::get_article_categories: the web service's own lookup; an
\* article id without a dense id is answered CoreServiceError::NotFound
ArticleService_get_article_categories(g, article_qid) ==
    LET dense_id == DirectMap_get(g.art_original_to_dense, article_qid) IN
    IF dense_id = None
    THEN [outcome |-> "NotFound", category_qids |-> <<>>]
    ELSE [outcome |-> "Ok",
          category_qids |->
              IF Unwrap(dense_id) < Len(g.article_cats)
              THEN to_original(g.cat_dense_to_original, g.article_cats[Unwrap(dense_id) + 1])
              ELSE <<>>]

----------------------------------------------------------------------------
(* The breadth-first walks of WikiGraph.  A walk record holds the locals   *)
(* of the traversal: queue of <<node, depth>>, visited, result (article    *)
(* dense ids), results (<<external id, depth>> of each descendant), and    *)
(* expanded, the nodes popped so far in pop order (kept for the claims).   *)

\* for &child in children { if !visited.contains(child) { visited.insert(child);
\* queue.push_back((child, depth + 1)); } } with the visited test dropped
RECURSIVE enqueue_children_unchecked(_, _, _, _, _)
enqueue_children_unchecked(children, i, depth, visited, queue) ==
    IF i > Len(children) THEN [visited |-> visited, queue |-> queue]
    ELSE enqueue_children_unchecked(children, i + 1, depth,
                                    visited \cup {children[i]},
                                    Append(queue, <<children[i], depth + 1>>))

\* for &child in children { if !visited.contains(child) { visited.insert(child);
\* queue.push_back((child, depth + 1)); } }
RECURSIVE enqueue_children(_, _, _, _, _)
enqueue_children(children, i, depth, visited, queue) ==
    IF i > Len(children) THEN [visited |-> visited, queue |-> queue]
    ELSE IF children[i] \notin visited
         THEN enqueue_children(children, i + 1, depth,
                               visited \cup {children[i]},
                               Append(queue, <<children[i], depth + 1>>))
         ELSE enqueue_children(children, i + 1, depth, visited, queue)

\* the locals of a walk before its loop; an unknown start id returns at once
begin_walk(g, op, wiki_cat_id, max_depth) ==
    LET start_node == DirectMap_get(g.cat_original_to_dense, wiki_cat_id) IN
    IF start_node = None
    THEN [op |-> op, wiki_cat_id |-> wiki_cat_id, max_depth |-> max_depth,
          start_node |-> None, queue |-> <<>>, visited |-> {},
          result |-> {}, results |-> <<>>, expanded |-> <<>>, done |-> TRUE]
    ELSE [op |-> op, wiki_cat_id |-> wiki_cat_id, max_depth |-> max_depth,
          start_node |-> start_node,
          queue |-> <<<<Unwrap(start_node), 0>>>>,
          visited |-> {Unwrap(start_node)},
          result |-> {}, results |-> <<>>, expanded |-> <<>>, done |-> FALSE]

\* get_articles_in_category with the depth test off by one (depth <= max_depth)
articles_step_one_deeper(g, w) ==
    IF w.queue = <<>> THEN [w EXCEPT !.done = TRUE]
    ELSE LET curr == Head(w.queue)[1]
             depth == Head(w.queue)[2]
             popped == Tail(w.queue)
             result == IF curr < Len(g.cat_articles)
                       THEN w.result \cup g.cat_articles[curr + 1]
                       ELSE w.result
             next == IF depth <= w.max_depth
                     THEN enqueue_children(neighbors(g.children, curr), 1, depth,
                                           w.visited, popped)
                     ELSE [visited |-> w.visited, queue |-> popped]
         IN [w EXCEPT !.queue = next.queue, !.visited = next.visited,
                      !.result = result, !.expanded = Append(@, curr)]

\* get_articles_in_category collecting the articles of the deepest level only
articles_step_deepest_only(g, w) ==
    IF w.queue = <<>> THEN [w EXCEPT !.done = TRUE]
    ELSE LET curr == Head(w.queue)[1]
             depth == Head(w.queue)[2]
             popped == Tail(w.queue)
             result == IF curr < Len(g.cat_articles) /\ depth >= w.max_depth
                       THEN w.result \cup g.cat_articles[curr + 1]
                       ELSE w.result
             next == IF depth < w.max_depth
                     THEN enqueue_children(neighbors(g.children, curr), 1, depth,
                                           w.visited, popped)
                     ELSE [visited |-> w.visited, queue |-> popped]
         IN [w EXCEPT !.queue = next.queue, !.visited = next.visited,
                      !.result = result, !.expanded = Append(@, curr)]

\* WikiGraph::get_articles_in_category: one iteration of the while loop, or
\* its exit when the queue is empty
articles_step(g, w) ==
    IF w.queue = <<>> THEN [w EXCEPT !.done = TRUE]
    ELSE LET curr == Head(w.queue)[1]
             depth == Head(w.queue)[2]
             popped == Tail(w.queue)
             result == IF curr < Len(g.cat_articles)
                       THEN w.result \cup g.cat_articles[curr + 1]
                       ELSE w.result
             next == IF depth < w.max_depth
                     THEN enqueue_children(neighbors(g.children, curr), 1, depth,
                                           w.visited, popped)
                     ELSE [visited |-> w.visited, queue |-> popped]
         IN [w EXCEPT !.queue = next.queue, !.visited = next.visited,
                      !.result = result, !.expanded = Append(@, curr)]

\* get_descendant_categories without the curr != start_node test
descendants_step_with_start(g, w) ==
    IF w.queue = <<>> THEN [w EXCEPT !.done = TRUE]
    ELSE LET curr == Head(w.queue)[1]
             depth == Head(w.queue)[2]
             popped == Tail(w.queue)
             results == Append(w.results, <<g.cat_dense_to_original[curr + 1], depth>>)
             next == IF depth >= w.max_depth
                     THEN [visited |-> w.visited, queue |-> popped]
                     ELSE enqueue_children(neighbors(g.children, curr), 1, depth,
                                           w.visited, popped)
         IN [w EXCEPT !.queue = next.queue, !.visited = next.visited,
                      !.results = results, !.expanded = Append(@, curr)]

\* WikiGraph::get_descendant_categories: one iteration of the while loop, or
\* its exit when the queue is empty
descendants_step(g, w) ==
    IF w.queue = <<>> THEN [w EXCEPT !.done = TRUE]
    ELSE LET curr == Head(w.queue)[1]
             depth == Head(w.queue)[2]
             popped == Tail(w.queue)
             results == IF curr # Unwrap(w.start_node)
                        THEN Append(w.results, <<g.cat_dense_to_original[curr + 1], depth>>)
                        ELSE w.results
             next == IF depth >= w.max_depth
                     THEN [visited |-> w.visited, queue |-> popped]
                     ELSE enqueue_children(neighbors(g.children, curr), 1, depth,
                                           w.visited, popped)
         IN [w EXCEPT !.queue = next.queue, !.visited = next.visited,
                      !.results = results, !.expanded = Append(@, curr)]

walk_step(g, w) ==
    IF w.op = "articles" THEN articles_step(g, w) ELSE descendants_step(g, w)

\* a walk run to its return
RECURSIVE run_walk(_, _)
run_walk(g, w) == IF w.done THEN w ELSE run_walk(g, walk_step(g, w))

\* WikiGraph::get_articles_in_category
get_articles_in_category(g, wiki_cat_id, max_depth) ==
    run_walk(g, begin_walk(g, "articles", wiki_cat_id, max_depth)).result

\* WikiGraph::get_descendant_categories
get_descendant_categories(g, wiki_cat_id, max_depth) ==
    run_walk(g, begin_walk(g, "descendants", wiki_cat_id, max_depth)).results

----------------------------------------------------------------------------
(* PageViewEngine: topictrend_core/src/pageview_engine.rs                  *)
(* A day file is a record [magic, body]; daily_views maps each date to     *)
(* None (no key) or Some(vector).  An operation that can panic returns a   *)
(* record whose field panicked says so.                                    *)

\* WikiGraph::get_articles_in_category_as_dense: the walk of
\* get_articles_in_category, keyed on the external id, returning dense ids
get_articles_in_category_as_dense(g, category_qid, depth) ==
    get_articles_in_category(g, category_qid, depth)

\* a load that empties the day store when it meets a file without the magic
RECURSIVE load_history_forgetting(_, _, _, _)
load_history_forgetting(dv, fs, curr_date, end_date) ==
    IF curr_date > end_date THEN [daily_views |-> dv, panicked |-> FALSE]
    ELSE IF IsSome(dv[curr_date]) \/ ~IsSome(fs[curr_date])
         THEN load_history_forgetting(dv, fs, curr_date + 1, end_date)
         ELSE IF Unwrap(fs[curr_date]).magic # "VIEW"
              THEN [daily_views |-> [d \in DOMAIN dv |-> None], panicked |-> TRUE]
              ELSE load_history_forgetting(
                       [dv EXCEPT ![curr_date] = Some(Unwrap(fs[curr_date]).body)],
                       fs, curr_date + 1, end_date)

\* a load that reads the file of every date of the window again
RECURSIVE load_history_reloading(_, _, _, _)
load_history_reloading(dv, fs, curr_date, end_date) ==
    IF curr_date > end_date THEN [daily_views |-> dv, panicked |-> FALSE]
    ELSE IF ~IsSome(fs[curr_date])
         THEN load_history_reloading(dv, fs, curr_date + 1, end_date)
         ELSE IF Unwrap(fs[curr_date]).magic # "VIEW"
              THEN [daily_views |-> dv, panicked |-> TRUE]
              ELSE load_history_reloading(
                       [dv EXCEPT ![curr_date] = Some(Unwrap(fs[curr_date]).body)],
                       fs, curr_date + 1, end_date)

\* a load that records a date without a file as a day without views
RECURSIVE load_history_caching_absence(_, _, _, _)
load_history_caching_absence(dv, fs, curr_date, end_date) ==
    IF curr_date > end_date THEN [daily_views |-> dv, panicked |-> FALSE]
    ELSE IF IsSome(dv[curr_date])
         THEN load_history_caching_absence(dv, fs, curr_date + 1, end_date)
         ELSE IF ~IsSome(fs[curr_date])
              THEN load_history_caching_absence([dv EXCEPT ![curr_date] = Some(<<>>)],
                                                fs, curr_date + 1, end_date)
              ELSE IF Unwrap(fs[curr_date]).magic # "VIEW"
                   THEN [daily_views |-> dv, panicked |-> TRUE]
                   ELSE load_history_caching_absence(
                            [dv EXCEPT ![curr_date] = Some(Unwrap(fs[curr_date]).body)],
                            fs, curr_date + 1, end_date)

\* load_history_for_date_range with load_daily_view and load_bin_file: a
\* date already in the map is skipped, an absent file stores nothing, a
\* file without the VIEW magic panics, any other file's body is stored
RECURSIVE load_history_for_date_range(_, _, _, _)
load_history_for_date_range(dv, fs, curr_date, end_date) ==
    IF curr_date > end_date THEN [daily_views |-> dv, panicked |-> FALSE]
    ELSE IF IsSome(dv[curr_date]) \/ ~IsSome(fs[curr_date])
         THEN load_history_for_date_range(dv, fs, curr_date + 1, end_date)
         ELSE IF Unwrap(fs[curr_date]).magic # "VIEW"
              THEN [daily_views |-> dv, panicked |-> TRUE]
              ELSE load_history_for_date_range(
                       [dv EXCEPT ![curr_date] = Some(Unwrap(fs[curr_date]).body)],
                       fs, curr_date + 1, end_date)

\* day_data.get(article_dense_id): the view count, nothing past the end
view_at(day_data, article_dense_id) ==
    IF article_dense_id < Len(day_data) THEN day_data[article_dense_id + 1] ELSE 0

\* the daily total with every article read one slot too low
daily_total_shifted(day_data, article_mask) ==
    SetSum(article_mask, [a \in article_mask |-> IF a = 0 THEN 0 ELSE view_at(day_data, a - 1)])

\* for article_dense_id in article_mask.iter() { daily_total += views }
daily_total(day_data, article_mask) ==
    SetSum(article_mask, [a \in article_mask |-> view_at(day_data, a)])

\* while curr <= end_date { results.push((curr, total or 0)); curr = succ }
RECURSIVE trend_rows(_, _, _, _, _)
trend_rows(dv, article_mask, curr, end_date, results) ==
    IF curr > end_date THEN results
    ELSE trend_rows(dv, article_mask, curr + 1, end_date,
                    Append(results,
                           IF IsSome(dv[curr])
                           THEN <<curr, daily_total(Unwrap(dv[curr]), article_mask)>>
                           ELSE <<curr, 0>>))

\* PageViewEngine::get_category_trend: the day store after the call and the
\* rows returned
get_category_trend(g, dv, fs, category_qid, depth, start_date, end_date) ==
    LET article_mask == get_articles_in_category_as_dense(g, category_qid, depth) IN
    IF article_mask = {}
    THEN [daily_views |-> dv, panicked |-> FALSE, results |-> <<>>]
    ELSE LET loaded == load_history_for_date_range(dv, fs, start_date, end_date) IN
         IF loaded.panicked
         THEN [daily_views |-> loaded.daily_views, panicked |-> TRUE, results |-> <<>>]
         ELSE [daily_views |-> loaded.daily_views, panicked |-> FALSE,
               results |-> trend_rows(loaded.daily_views, article_mask,
                                      start_date, end_date, <<>>)]

\* u32 addition as the release build does it
u32_add(a, b) == (a + b) % (2 ^ U32_BITS)

\* phase 1: article_views[i] += views for every loaded day of the window;
\* a day vector longer than article_views indexes out of bounds
RECURSIVE aggregate_days(_, _, _, _)
aggregate_days(dv, curr, end_date, article_views) ==
    IF curr > end_date THEN [article_views |-> article_views, panicked |-> FALSE]
    ELSE IF ~IsSome(dv[curr])
         THEN aggregate_days(dv, curr + 1, end_date, article_views)
         ELSE LET day_vec == Unwrap(dv[curr]) IN
              IF Len(day_vec) > Len(article_views)
              THEN [article_views |-> article_views, panicked |-> TRUE]
              ELSE aggregate_days(dv, curr + 1, end_date,
                       [i \in 1..Len(article_views) |->
                           IF i <= Len(day_vec)
                           THEN u32_add(article_views[i], day_vec[i])
                           ELSE article_views[i]])

\* phase 2, one article: its views go to every category of its list
RECURSIVE scatter_article(_, _, _, _, _)
scatter_article(article_categories, i, art_dense_id, views, acc) ==
    IF i > Len(article_categories) THEN acc
    ELSE LET cat == article_categories[i] IN
         scatter_article(article_categories, i + 1, art_dense_id, views,
             [cat_scores |-> [acc.cat_scores EXCEPT ![cat + 1] = @ + views],
              cat_articles |-> [acc.cat_articles EXCEPT
                                   ![cat + 1] = Append(@, <<art_dense_id, views>>)]])

\* phase 2: every article with views, in dense order
RECURSIVE scatter(_, _, _, _)
scatter(g, article_views, art_dense_id, acc) ==
    IF art_dense_id >= Len(article_views) THEN acc
    ELSE IF article_views[art_dense_id + 1] = 0
         THEN scatter(g, article_views, art_dense_id + 1, acc)
         ELSE scatter(g, article_views, art_dense_id + 1,
                      scatter_article(g.article_cats[art_dense_id + 1], 1,
                                      art_dense_id, article_views[art_dense_id + 1], acc))

\* a sort by descending key that puts x before the elements whose key equals
\* its own
RECURSIVE insert_desc_before_equals(_, _, _)
insert_desc_before_equals(sorted, x, key) ==
    IF sorted = <<>> THEN <<x>>
    ELSE IF key[Head(sorted)] > key[x]
         THEN <<Head(sorted)>> \o insert_desc_before_equals(Tail(sorted), x, key)
         ELSE <<x>> \o sorted

\* a stable sort by descending key: x goes behind every element whose key
\* is at least its own
RECURSIVE insert_desc(_, _, _)
insert_desc(sorted, x, key) ==
    IF sorted = <<>> THEN <<x>>
    ELSE IF key[Head(sorted)] >= key[x]
         THEN <<Head(sorted)>> \o insert_desc(Tail(sorted), x, key)
         ELSE <<x>> \o sorted

RECURSIVE sort_desc(_, _, _)
sort_desc(items, i, key) ==
    IF i = 0 THEN <<>>
    ELSE insert_desc(sort_desc(items, i - 1, key), items[i], key)

take(s, n) == SubSeq(s, 1, IF n < Len(s) THEN n ELSE Len(s))

RECURSIVE filter_positive(_, _)
filter_positive(ranked, cat_scores) ==
    IF ranked = <<>> THEN <<>>
    ELSE IF cat_scores[Head(ranked) + 1] > 0
         THEN <<Head(ranked)>> \o filter_positive(Tail(ranked), cat_scores)
         ELSE filter_positive(Tail(ranked), cat_scores)

\* the ArticleRank list of one category: its contributors by views
\* descending, the first top_n
top_articles_of(g, contributors, top_n) ==
    LET views == [i \in 1..Len(contributors) |-> contributors[i][2]]
        order == sort_desc([i \in 1..Len(contributors) |-> i], Len(contributors), views)
        kept == take(order, top_n)
    IN [i \in 1..Len(kept) |->
           [article_qid |-> g.art_dense_to_original[contributors[kept[i]][1] + 1],
            total_views |-> contributors[kept[i]][2]]]

\* phase 3: rank the categories by score descending, take top_n, drop the
\* zero scores, and describe each one kept
rank_categories(g, scattered, top_n) ==
    LET num_cats == Len(g.cat_dense_to_original)
        scores == [c \in 0..(num_cats - 1) |-> scattered.cat_scores[c + 1]]
        ranked == sort_desc([i \in 1..num_cats |-> i - 1], num_cats, scores)
        kept == filter_positive(take(ranked, top_n), scattered.cat_scores)
    IN [i \in 1..Len(kept) |->
           [category_qid |-> g.cat_dense_to_original[kept[i] + 1],
            total_views |-> scattered.cat_scores[kept[i] + 1],
            top_articles |-> top_articles_of(g, scattered.cat_articles[kept[i] + 1], top_n)]]

\* PageViewEngine::get_top_categories after a cache miss, up to the insert
compute_top_categories(g, dv, fs, start_date, end_date, top_n) ==
    LET num_articles == Len(g.art_dense_to_original)
        num_cats == Len(g.cat_dense_to_original)
        loaded == load_history_for_date_range(dv, fs, start_date, end_date)
        summed == aggregate_days(loaded.daily_views, start_date, end_date,
                                 [i \in 1..num_articles |-> 0])
        scattered == scatter(g, summed.article_views, 0,
                             [cat_scores |-> [i \in 1..num_cats |-> 0],
                              cat_articles |-> [i \in 1..num_cats |-> <<>>]])
    IN IF loaded.panicked \/ summed.panicked
       THEN [daily_views |-> loaded.daily_views, panicked |-> TRUE, results |-> <<>>]
       ELSE [daily_views |-> loaded.daily_views, panicked |-> FALSE,
             results |-> rank_categories(g, scattered, top_n)]

\* the views of one article on the first day of the window only
article_window_total_first_day(dv, article_dense_id, curr, end_date, total_views) ==
    IF curr <= end_date /\ IsSome(dv[curr])
    THEN total_views + view_at(Unwrap(dv[curr]), article_dense_id)
    ELSE total_views

\* get_top_articles_in_category: the views of one article over the loaded
\* days of the window (while curr <= end_date { total_views += views })
RECURSIVE article_window_total(_, _, _, _, _)
article_window_total(dv, article_dense_id, curr, end_date, total_views) ==
    IF curr > end_date THEN total_views
    ELSE article_window_total(dv, article_dense_id, curr + 1, end_date,
             IF IsSome(dv[curr])
             THEN total_views + view_at(Unwrap(dv[curr]), article_dense_id)
             ELSE total_views)

\* for article_dense_id in article_mask.iter(): the (qid, total) of every
\* article of the mask with views, in ascending dense id
RECURSIVE collect_article_views(_, _, _, _, _, _, _)
collect_article_views(g, dv, article_mask, article_dense_id, start_date, end_date, article_views) ==
    IF article_dense_id >= Len(g.art_dense_to_original) THEN article_views
    ELSE LET total_views == article_window_total(dv, article_dense_id, start_date, end_date, 0) IN
         collect_article_views(g, dv, article_mask, article_dense_id + 1, start_date, end_date,
             IF article_dense_id \in article_mask /\ total_views > 0
             THEN Append(article_views,
                         <<g.art_dense_to_original[article_dense_id + 1], total_views>>)
             ELSE article_views)

\* article_views.sort_unstable_by(|a, b| b.1.cmp(&a.1)): every order of the
\* items that is descending in the views; equal views may come in any order
sort_unstable_by_views_desc(article_views) ==
    {s \in [1..Len(article_views) -> Range(article_views)] :
        /\ Range(s) = Range(article_views)
        /\ \A i \in 1..Len(s) : \A j \in 1..Len(s) : i < j => s[i][2] >= s[j][2]}

\* a CategoryRank whose total counts every item, returned or not
category_rank_of_all(category_qid, sorted, top_n) ==
    LET kept == take(sorted, top_n)
        positions == 1..Len(sorted)
    IN [category_qid |-> category_qid,
        total_views |-> SetSum(positions, [i \in positions |-> sorted[i][2]]),
        top_articles |-> [i \in 1..Len(kept) |->
                             [article_qid |-> kept[i][1], total_views |-> kept[i][2]]]]

\* the CategoryRank made of the first top_n of the sorted items
category_rank_of(category_qid, sorted, top_n) ==
    LET kept == take(sorted, top_n)
        top_articles == [i \in 1..Len(kept) |->
                            [article_qid |-> kept[i][1], total_views |-> kept[i][2]]]
        positions == 1..Len(kept)
    IN [category_qid |-> category_qid,
        total_views |-> SetSum(positions, [i \in positions |-> kept[i][2]]),
        top_articles |-> top_articles]

\* PageViewEngine::get_top_articles_in_category: the outcomes the call can
\* have, one per order the unstable sort can leave
get_top_articles_in_category(g, dv, fs, category_qid, start_date, end_date, depth, top_n) ==
    LET article_mask == get_articles_in_category_as_dense(g, category_qid, depth) IN
    IF article_mask = {}
    THEN {[daily_views |-> dv, panicked |-> FALSE,
           result |-> [category_qid |-> category_qid, total_views |-> 0,
                       top_articles |-> <<>>]]}
    ELSE LET loaded == load_history_for_date_range(dv, fs, start_date, end_date) IN
         IF loaded.panicked
         THEN {[daily_views |-> loaded.daily_views, panicked |-> TRUE,
                result |-> [category_qid |-> category_qid, total_views |-> 0,
                            top_articles |-> <<>>]]}
         ELSE LET article_views ==
                      collect_article_views(g, loaded.daily_views, article_mask, 0,
                                            start_date, end_date, <<>>)
              IN {[daily_views |-> loaded.daily_views, panicked |-> FALSE,
                   result |-> category_rank_of(category_qid, sorted, top_n)] :
                      sorted \in sort_unstable_by_views_desc(article_views)}

----------------------------------------------------------------------------
(* TopCategoriesCache.  The cache is a function from the keys it holds,    *)
(* <<start, end, top_n>>, to entries [data, created_at, ttl].              *)

\* TopCategoriesCache::get_ttl
get_ttl(today_date, end_date) ==
    LET days_ago == today_date - end_date IN
    IF days_ago <= 1 THEN 15 * 60
    ELSE IF days_ago <= 7 THEN 60 * 60
    ELSE IF days_ago <= 30 THEN 6 * 60 * 60
    ELSE 24 * 60 * 60

\* an entry that never expires
is_expired_never(entry, instant) == FALSE

\* TopCategoriesCacheEntry::is_expired
is_expired(entry, instant) == instant - entry.created_at > entry.ttl

\* TopCategoriesCache::get
TopCategoriesCache_get(tc, key, instant) ==
    IF key \in DOMAIN tc.cache /\ ~is_expired(tc.cache[key], instant)
    THEN Some(tc.cache[key].data)
    ELSE None

\* a sweep that keeps nothing
cleanup_expired_all(cache, instant) == [k \in {} |-> cache[k]]

\* TopCategoriesCache::cleanup_expired
cleanup_expired(cache, instant) ==
    LET kept == {k \in DOMAIN cache : ~is_expired(cache[k], instant)} IN
    [k \in kept |-> cache[k]]

\* TopCategoriesCache::insert
TopCategoriesCache_insert(tc, key, data, instant, today_date) ==
    LET entry == [data |-> data, created_at |-> instant,
                  ttl |-> get_ttl(today_date, key[2])]
        inserted == [k \in DOMAIN tc.cache \cup {key} |->
                        IF k = key THEN entry ELSE tc.cache[k]]
    IN IF instant - tc.last_cleanup > 10 * 60
       THEN [cache |-> cleanup_expired(inserted, instant), last_cleanup |-> instant]
       ELSE [cache |-> inserted, last_cleanup |-> tc.last_cleanup]

\* TopCategoriesCache::new
TopCategoriesCache_new(instant) == [cache |-> <<>>, last_cleanup |-> instant]

\* PageViewEngine::get_top_categories: a fresh entry is returned as it is;
\* otherwise the ranking is computed and stored
get_top_categories(g, dv, fs, tc, key, instant, today_date) ==
    LET cached_result == TopCategoriesCache_get(tc, key, instant) IN
    IF IsSome(cached_result)
    THEN [daily_views |-> dv, top_categories_cache |-> tc, hit |-> TRUE,
          panicked |-> FALSE, results |-> Unwrap(cached_result)]
    ELSE LET r == compute_top_categories(g, dv, fs, key[1], key[2], key[3]) IN
         IF r.panicked
         THEN [daily_views |-> r.daily_views, top_categories_cache |-> tc,
               hit |-> FALSE, panicked |-> TRUE, results |-> <<>>]
         ELSE [daily_views |-> r.daily_views,
               top_categories_cache |->
                   TopCategoriesCache_insert(tc, key, r.results, instant, today_date),
               hit |-> FALSE, panicked |-> FALSE, results |-> r.results]

----------------------------------------------------------------------------
(* The engine registry: AppState.engines and get_or_build_engine           *)
(* (topictrend_web/src/services/core/engine_service.rs, and the same code  *)
(* in services/pageviews_service.rs).  The map gives each wiki None or the *)
(* handle of its engine; a handle is the engine's position in constructed. *)
(* The lock is a record [holder, poisoned].                                *)

\* a write lock that any number of tasks may hold
write_granted_always(lock) == TRUE

\* RwLock::write on a lock that is not poisoned: granted when nobody holds it
write_granted(lock) == lock.holder = None

\* engines.get(&wiki)
engines_get(map, wiki) == map[wiki]

\* engines.insert(wiki, handle)
engines_insert(map, wiki, handle) == [map EXCEPT ![wiki] = Some(handle)]

----------------------------------------------------------------------------
(* The snapshot of the test wiki, and the inputs the specifications draw   *)

\* categories.parquet and articles.parquet: the id column, in file order
CatSnapshot == <<3, 1, 2>>
ArtSnapshot == <<6, 4, 5>>

\* ids that no snapshot row carries: 0 lies inside both id maps (an unset
\* slot), 9 lies beyond them
UnknownQids == {0, 9}

CatQids == Range(CatSnapshot)
ArtQids == Range(ArtSnapshot)

\* category_graph.parquet: the cycle 3 -> 1 -> 2 -> 3
HierarchyScenario == <<<<3, 1>>, <<1, 2>>, <<2, 3>>>>

\* article_category.parquet: articles 6 and 4 in category 3, article 5 in
\* category 1, category 2 without members
MembershipScenario == <<<<6, 3>>, <<4, 3>>, <<5, 1>>>>

\* the longest relation files the build specification enumerates
MaxEdgeRows == 3
MaxMemRows == 2

EdgeRowSet == (CatQids \cup UnknownQids) \X (CatQids \cup UnknownQids)
MemRowSet == (ArtQids \cup UnknownQids) \X (CatQids \cup UnknownQids)

\* depths a walk is asked for: 0..MaxDepth and u8::MAX ("unbounded")
MaxDepth == 2
U8_MAX == 255
Depths == 0..MaxDepth \cup {U8_MAX}

\* the hierarchy files of the walk specification: up to MaxWalkEdges rows
\* between known categories (cycles, self-loops and repeated rows
\* included), in ascending row order
MaxWalkEdges == 4
RowLeq(r1, r2) == r1[1] < r2[1] \/ (r1[1] = r2[1] /\ r1[2] <= r2[2])
WalkHierarchies ==
    {rows \in SeqsUpTo(CatQids \X CatQids, MaxWalkEdges) :
        \A i \in 1..(Len(rows) - 1) : RowLeq(rows[i], rows[i + 1])}

\* the dates of the day store, as day numbers
NumDays == 2
Dates == 1..NumDays

\* the contents of a day file with the VIEW magic: one count per article of
\* the snapshot, or a vector that is an entry short or an entry long (the
\* load only logs the mismatch)
DayBodies == {<<1, 2, 4>>, <<2, 1>>, <<1, 0, 2, 3>>}

\* the depths of the engine's queries
EngineDepths == {0, 1, U8_MAX}

\* a day file: absent, present with the VIEW magic, or present without it
DayFiles ==
    {None} \cup {Some([magic |-> "VIEW", body |-> b]) : b \in DayBodies}
           \cup {Some([magic |-> "JUNK", body |-> <<>>])}

\* the sizes asked of a ranking
TopNs == {1, 3}

\* the cache study: its queries, the steps of its clock in seconds and the
\* instant its clock stops at
CacheKeys == {<<1, 1, 3>>, <<1, 2, 3>>, <<1, 2, 1>>}
TickSteps == {600, 3000}
MaxNow == 4200

\* the wiki codes asked of the registry and the blocking tasks that serve
\* the requests
Wikis == {"aawiki", "bbwiki"}
NumTasks == 2
Tasks == 1..NumTasks

\* the category scores handed to the ranking phase
MaxScore == 3
Scores == 0..MaxScore

\* the values of the variables a specification does not use
WalkIdle == walk = None
EngineIdle ==
    /\ files = <<>>
    /\ daily_views = <<>>
    /\ top_categories_cache = <<>>
    /\ now = 0
    /\ today = 0
    /\ last = None
RegistryIdle ==
    /\ engines = <<>>
    /\ engines_lock = None
    /\ task = <<>>
    /\ constructed = <<>>
    /\ snapshot_ok = <<>>

----------------------------------------------------------------------------
(* SpecBuild: the graph build on every relation file within the bounds     *)

InitBuild ==
    /\ categories = CatSnapshot
    /\ articles = ArtSnapshot
    /\ \/ /\ category_graph \in SeqsUpTo(EdgeRowSet, MaxEdgeRows)
          /\ article_category = MembershipScenario
       \/ /\ category_graph = HierarchyScenario
          /\ article_category \in SeqsUpTo(MemRowSet, MaxMemRows)
    /\ graph = None
    /\ WalkIdle /\ EngineIdle /\ RegistryIdle

\* PageViewEngine::new -> GraphBuilder::build on the snapshot files
BuildGraph ==
    /\ graph = None
    /\ graph' = Some(build(categories, articles, category_graph, article_category))
    /\ UNCHANGED <<categories, articles, category_graph, article_category>>
    /\ UNCHANGED <<walkVars, engineVars, registryVars>>

NextBuild == BuildGraph

SpecBuild == InitBuild /\ [][NextBuild]_vars

----------------------------------------------------------------------------
(* Claims about the build                                                  *)

Count(s, x) == Cardinality({i \in 1..Len(s) : s[i] = x})

KnownRow(row, first_ids, second_ids) ==
    row[1] \in Range(first_ids) /\ row[2] \in Range(second_ids)

\* C6: after the build, article a is in the member bitmap of category c if
\* and only if c is in the category list of a; and for every
\* article_category row whose two ids are known, the category is returned by
\* categories_for_article(article).
C6_MembershipBothWays ==
    IsSome(graph) =>
        LET g == Unwrap(graph) IN
        /\ \A a \in 0..(Len(g.art_dense_to_original) - 1) :
           \A c \in 0..(Len(g.cat_dense_to_original) - 1) :
               (a \in g.cat_articles[c + 1]) <=> (c \in Range(g.article_cats[a + 1]))
        /\ \A i \in 1..Len(article_category) :
               KnownRow(article_category[i], articles, categories) =>
                   article_category[i][2] \in
                       Range(get_categories_for_article(g, article_category[i][1]))

\* C7: after the build, every category_graph row (p, c) with two known ids
\* has c among children(p) and p among parents(c); each edge of the forward
\* adjacency is in the reverse adjacency with the same multiplicity and vice
\* versa; and the edges are exactly the rows with two known ids (a row with
\* an unknown id adds none).
C7_EdgesBothWays ==
    IsSome(graph) =>
        LET g == Unwrap(graph)
            D == 0..(Len(g.cat_dense_to_original) - 1)
        IN
        /\ \A i \in 1..Len(category_graph) :
               KnownRow(category_graph[i], categories, categories) =>
                   /\ category_graph[i][2] \in
                          Range(get_child_categories(g, category_graph[i][1]))
                   /\ category_graph[i][1] \in
                          Range(get_parent_categories(g, category_graph[i][2]))
        /\ \A x \in D : \A y \in D :
               /\ Count(neighbors(g.children, x), y) = Count(neighbors(g.parents, y), x)
               /\ Count(neighbors(g.children, x), y) =
                      Count(category_graph,
                            <<g.cat_dense_to_original[x + 1], g.cat_dense_to_original[y + 1]>>)
        /\ \A x \in D :
               /\ Range(neighbors(g.children, x)) \subseteq D
               /\ Range(neighbors(g.parents, x)) \subseteq D

\* a build of a file that holds a row with an unknown id and a row that
\* links two different known categories
C7_Witness ==
    /\ IsSome(graph)
    /\ \E i \in 1..Len(category_graph) :
           ~KnownRow(category_graph[i], categories, categories)
    /\ \E i \in 1..Len(category_graph) :
           /\ KnownRow(category_graph[i], categories, categories)
           /\ category_graph[i][1] # category_graph[i][2]

----------------------------------------------------------------------------
(* SpecWalk: the walks of a built graph, one loop iteration per step       *)

InitWalk ==
    /\ categories = CatSnapshot
    /\ articles = ArtSnapshot
    /\ category_graph \in WalkHierarchies
    /\ article_category = MembershipScenario
    /\ graph = Some(build(categories, articles, category_graph, article_category))
    /\ walk = None
    /\ EngineIdle /\ RegistryIdle

WalkFree == IF walk = None THEN TRUE ELSE Unwrap(walk).done

\* a call of get_articles_in_category, up to its loop
StartArticles(wiki_cat_id, max_depth) ==
    /\ WalkFree
    /\ walk' = Some(begin_walk(Unwrap(graph), "articles", wiki_cat_id, max_depth))
    /\ UNCHANGED <<buildVars, engineVars, registryVars>>

\* a call of get_descendant_categories, up to its loop
StartDescendants(wiki_cat_id, max_depth) ==
    /\ WalkFree
    /\ walk' = Some(begin_walk(Unwrap(graph), "descendants", wiki_cat_id, max_depth))
    /\ UNCHANGED <<buildVars, engineVars, registryVars>>

\* one iteration of the walk's loop, or its return
WalkStep ==
    /\ ~WalkFree
    /\ walk' = Some(walk_step(Unwrap(graph), Unwrap(walk)))
    /\ UNCHANGED <<buildVars, engineVars, registryVars>>

NextWalk ==
    \/ \E q \in CatQids \cup UnknownQids : \E d \in Depths : StartArticles(q, d)
    \/ \E q \in CatQids \cup UnknownQids : \E d \in Depths : StartDescendants(q, d)
    \/ WalkStep

SpecWalk == InitWalk /\ [][NextWalk]_vars

----------------------------------------------------------------------------
(* Claims about the walks                                                  *)

\* the hierarchy as the files give it: the rows between two known categories
Hierarchy ==
    {row \in Range(category_graph) : KnownRow(row, categories, categories)}

\* the categories at most d parent->child hops away from those of S
RECURSIVE WithinHops(_, _)
WithinHops(S, d) ==
    LET T == S \cup {row[2] : row \in {r \in Hierarchy : r[1] \in S}} IN
    IF d = 0 \/ T = S THEN S ELSE WithinHops(T, d - 1)

\* the dense ids of the articles the files put in category q
MembersOf(q) ==
    {a \in 0..(Len(articles) - 1) :
        \E row \in Range(article_category) : row[1] = articles[a + 1] /\ row[2] = q}

NoRepeat(s) == \A i \in 1..Len(s) : \A j \in 1..Len(s) : s[i] = s[j] => i = j

QueueNodes(w) == [i \in 1..Len(w.queue) |-> w.queue[i][1]]

\* C1: for every hierarchy, known category c and depth d,
\* articles_in_category(c, d) returns exactly the union of the member sets of
\* the categories at most d hops from c (c included); with d = 0 exactly c's
\* own members.
C1_ArticlesWithinDepth ==
    (IsSome(walk) /\ Unwrap(walk).done /\ Unwrap(walk).op = "articles"
        /\ Unwrap(walk).wiki_cat_id \in Range(categories)) =>
        LET w == Unwrap(walk) IN
        /\ w.result = UNION {MembersOf(q) : q \in WithinHops({w.wiki_cat_id}, w.max_depth)}
        /\ w.max_depth = 0 => w.result = MembersOf(w.wiki_cat_id)

\* a finished articles walk of depth 1 from a category on a cycle through
\* three categories: it took in a child's members and left a descendant out
C1_Witness ==
    /\ IsSome(walk) /\ Unwrap(walk).done /\ Unwrap(walk).op = "articles"
    /\ Unwrap(walk).max_depth = 1
    /\ Hierarchy = Range(HierarchyScenario)
    /\ Unwrap(walk).wiki_cat_id = 2
    /\ Unwrap(walk).result = MembersOf(2) \cup MembersOf(3)
    /\ MembersOf(1) # {} /\ MembersOf(3) # {}

\* C5: on any finite hierarchy, cycles and self-loops included, every walk
\* terminates (it pops at most one node per category, so its loop runs at
\* most that many times), and within one walk no category is enqueued or
\* expanded more than once.
C5_WalkTerminates ==
    IsSome(walk) =>
        LET w == Unwrap(walk) IN
        /\ NoRepeat(w.expanded \o QueueNodes(w))
        /\ Len(w.expanded) + Len(w.queue) <= Len(categories)
        /\ w.queue = <<>> => Range(w.expanded) = w.visited

\* a finished unbounded walk from a category on the cycle 3 -> 1 -> 2 -> 3
\* that expanded all three categories
C5_Witness ==
    /\ IsSome(walk) /\ Unwrap(walk).done
    /\ Unwrap(walk).max_depth = U8_MAX
    /\ Range(HierarchyScenario) \subseteq Hierarchy
    /\ Len(Unwrap(walk).expanded) = 3

\* the least number of parent->child hops from category c to category q,
\* for q within reach of c
HopDistance(c, q) ==
    CHOOSE k \in 0..Len(categories) :
        /\ q \in WithinHops({c}, k)
        /\ k > 0 => q \notin WithinHops({c}, k - 1)

\* C12: descendant_categories(c, max_depth) returns each category reachable
\* from c in 1..max_depth hops exactly once, never c itself (also when a
\* cycle leads back to c), nothing beyond max_depth, and records for each
\* its shortest hop distance from c.
C12_DescendantsByDistance ==
    (IsSome(walk) /\ Unwrap(walk).done /\ Unwrap(walk).op = "descendants"
        /\ Unwrap(walk).wiki_cat_id \in Range(categories)) =>
        LET w == Unwrap(walk)
            c == w.wiki_cat_id
            returned == [i \in 1..Len(w.results) |-> w.results[i][1]]
        IN /\ Range(returned) = WithinHops({c}, w.max_depth) \ {c}
           /\ NoRepeat(returned)
           /\ \A i \in 1..Len(w.results) :
                 w.results[i][2] = HopDistance(c, w.results[i][1])

\* a finished unbounded descendants walk from category 3 where 3 -> 1 -> 2,
\* 3 -> 2 and 2 -> 3: category 2 is found again one hop further and the
\* cycle leads back to 3
C12_Witness ==
    /\ IsSome(walk) /\ Unwrap(walk).done /\ Unwrap(walk).op = "descendants"
    /\ Unwrap(walk).wiki_cat_id = 3 /\ Unwrap(walk).max_depth = U8_MAX
    /\ Hierarchy = {<<3, 1>>, <<1, 2>>, <<3, 2>>, <<2, 3>>}
    /\ Range(Unwrap(walk).results) = {<<1, 1>>, <<2, 1>>}

----------------------------------------------------------------------------
(* SpecTrend: category trends of one engine over every set of day files    *)

\* PageViewEngine::new on the snapshot of the test wiki: the graph built,
\* no day loaded
InitTrend ==
    /\ categories = CatSnapshot
    /\ articles = ArtSnapshot
    /\ category_graph = HierarchyScenario
    /\ article_category = MembershipScenario
    /\ graph = Some(build(categories, articles, category_graph, article_category))
    /\ files \in [Dates -> DayFiles]
    /\ daily_views = [d \in Dates |-> None]
    /\ top_categories_cache = <<>>
    /\ now = 0
    /\ today = 0
    /\ last = None
    /\ WalkIdle /\ RegistryIdle

\* a panic ends the process that owns the engine
EngineAlive == IF last = None THEN TRUE ELSE ~Unwrap(last).panicked

\* a call of PageViewEngine::get_category_trend
CategoryTrend(category_qid, depth, start_date, end_date) ==
    /\ EngineAlive
    /\ LET r == get_category_trend(Unwrap(graph), daily_views, files,
                                   category_qid, depth, start_date, end_date)
       IN /\ daily_views' = r.daily_views
          /\ last' = Some([op |-> "category_trend", category_qid |-> category_qid,
                           depth |-> depth, start_date |-> start_date,
                           end_date |-> end_date, panicked |-> r.panicked,
                           results |-> r.results])
    /\ UNCHANGED <<files, top_categories_cache, now, today>>
    /\ UNCHANGED <<buildVars, walkVars, registryVars>>

NextTrend ==
    \E q \in CatQids \cup {0} : \E d \in EngineDepths :
        \E s \in Dates : \E e \in Dates : CategoryTrend(q, d, s, e)

SpecTrend == InitTrend /\ [][NextTrend]_vars

----------------------------------------------------------------------------
(* Claims about category trends                                            *)

\* the article set of category q to depth d, from the snapshot rows
ArticleSet(q, d) == UNION {MembersOf(c) : c \in WithinHops({q}, d)}

\* the views a day vector holds for the articles of A
ViewsOf(v, A) == SetSum(A, [a \in A |-> IF a + 1 <= Len(v) THEN v[a + 1] ELSE 0])

LastTrend == IsSome(last) /\ Unwrap(last).op = "category_trend"

\* C2: for a category whose article set A to the requested depth is not
\* empty, every (d, total) pair category_trend emits has total = the sum over
\* A of the views of the vector loaded for d, and total = 0 when d has no day
\* file; a missing day file never makes the query fail.
C2_TrendTotals ==
    (LastTrend /\ ArticleSet(Unwrap(last).category_qid, Unwrap(last).depth) # {}) =>
        LET l == Unwrap(last)
            A == ArticleSet(l.category_qid, l.depth)
        IN /\ \A i \in 1..Len(l.results) :
                 LET d == l.results[i][1]
                     total == l.results[i][2]
                 IN /\ IsSome(daily_views[d]) => total = ViewsOf(Unwrap(daily_views[d]), A)
                    /\ ~IsSome(files[d]) => ~IsSome(daily_views[d]) /\ total = 0
                    /\ IsSome(files[d]) => daily_views[d] = Some(Unwrap(files[d]).body)
           /\ l.panicked =>
                 \E d \in l.start_date..l.end_date :
                     IsSome(files[d]) /\ Unwrap(files[d]).magic # "VIEW"

\* a trend over two dates, the first with a file in which the category's
\* articles have views, the second without a file
C2_Witness ==
    /\ LastTrend
    /\ Unwrap(last).category_qid = 3 /\ Unwrap(last).depth = 0
    /\ ~IsSome(files[2])
    /\ Unwrap(last).results = <<<<1, 3>>, <<2, 0>>>>

\* C10: for every known category, depth and window with start <= end,
\* category_trend returns exactly one (date, total) pair per date of
\* [start, end], ascending, also when the category has no member articles
\* and when the window has no day file; only an unknown category gives the
\* empty sequence.
C10_OnePairPerDate ==
    (LastTrend /\ ~Unwrap(last).panicked) =>
        LET l == Unwrap(last) IN
        IF l.category_qid \in Range(categories)
        THEN /\ Len(l.results) = IF l.start_date <= l.end_date
                                 THEN l.end_date - l.start_date + 1 ELSE 0
             /\ \A i \in 1..Len(l.results) : l.results[i][1] = l.start_date + i - 1
        ELSE l.results = <<>>

----------------------------------------------------------------------------
(* SpecTop: the first ranking asked of a new engine, over every set of day *)
(* files                                                                   *)

InitTop ==
    /\ categories = CatSnapshot
    /\ articles = ArtSnapshot
    /\ category_graph = HierarchyScenario
    /\ article_category = MembershipScenario
    /\ graph = Some(build(categories, articles, category_graph, article_category))
    /\ files \in [Dates -> DayFiles]
    /\ daily_views = [d \in Dates |-> None]
    /\ top_categories_cache = TopCategoriesCache_new(0)
    /\ now = 0
    /\ today = NumDays
    /\ last = None
    /\ WalkIdle /\ RegistryIdle

\* a call of PageViewEngine::get_top_categories
TopCategories(start_date, end_date, top_n) ==
    /\ EngineAlive
    /\ LET key == <<start_date, end_date, top_n>>
           r == get_top_categories(Unwrap(graph), daily_views, files,
                                   top_categories_cache, key, now, today)
       IN /\ daily_views' = r.daily_views
          /\ top_categories_cache' = r.top_categories_cache
          /\ last' = Some([op |-> "top_categories", key |-> key, at |-> now,
                           hit |-> r.hit, panicked |-> r.panicked,
                           prior |-> IF key \in DOMAIN top_categories_cache.cache
                                     THEN Some(top_categories_cache.cache[key])
                                     ELSE None,
                           results |-> r.results])
    /\ UNCHANGED <<files, now, today>>
    /\ UNCHANGED <<buildVars, walkVars, registryVars>>

FirstTopCategories(start_date, end_date, top_n) ==
    /\ last = None
    /\ TopCategories(start_date, end_date, top_n)

NextTop ==
    \E s \in Dates : \E e \in Dates : \E n \in TopNs : FirstTopCategories(s, e, n)

SpecTop == InitTop /\ [][NextTop]_vars

----------------------------------------------------------------------------
(* Claims about the ranking                                                *)

LastTop == IsSome(last) /\ Unwrap(last).op = "top_categories"

\* the views of article a over the loaded days of the window
WindowViews(a, start_date, end_date) ==
    LET days == {d \in start_date..end_date : IsSome(daily_views[d])} IN
    SetSum(days, [d \in days |-> ViewsOf(Unwrap(daily_views[d]), {a})])

\* the total of category q: its direct members' views over the window
DirectTotal(q, start_date, end_date) ==
    SetSum(MembersOf(q), [a \in MembersOf(q) |-> WindowViews(a, start_date, end_date)])

\* C3: on a built graph top_categories(window, N) reports for each returned
\* category the sum of its direct members' views over the loaded days of the
\* window, returns exactly the min(N, k) highest-total categories, k being
\* the number of categories with a non-zero total, and never one whose total
\* is 0.
C3_TopByDirectViews ==
    (LastTop /\ ~Unwrap(last).panicked) =>
        LET l == Unwrap(last)
            total == [q \in Range(categories) |-> DirectTotal(q, l.key[1], l.key[2])]
            k == Cardinality({q \in Range(categories) : total[q] > 0})
            returned == {l.results[i].category_qid : i \in 1..Len(l.results)}
        IN /\ Len(l.results) = IF l.key[3] < k THEN l.key[3] ELSE k
           /\ Cardinality(returned) = Len(l.results)
           /\ \A i \in 1..Len(l.results) :
                 /\ l.results[i].category_qid \in Range(categories)
                 /\ l.results[i].total_views = total[l.results[i].category_qid]
                 /\ l.results[i].total_views > 0
           /\ \A q \in Range(categories) \ returned : \A r \in returned :
                 total[q] <= total[r]

----------------------------------------------------------------------------
(* SpecCache: the ranking cache of one engine as time passes and day files *)
(* are published                                                           *)

InitCache ==
    /\ categories = CatSnapshot
    /\ articles = ArtSnapshot
    /\ category_graph = HierarchyScenario
    /\ article_category = MembershipScenario
    /\ graph = Some(build(categories, articles, category_graph, article_category))
    /\ files = [d \in Dates |->
                   IF d = 1 THEN Some([magic |-> "VIEW", body |-> <<1, 2, 4>>]) ELSE None]
    /\ daily_views = [d \in Dates |-> None]
    /\ top_categories_cache = TopCategoriesCache_new(0)
    /\ now = 0
    /\ today = NumDays + 1
    /\ last = None
    /\ WalkIdle /\ RegistryIdle

\* the pipeline writes the file of a day that had none
PublishDay(d) ==
    /\ ~IsSome(files[d])
    /\ files' = [files EXCEPT ![d] = Some([magic |-> "VIEW", body |-> <<1, 2, 4>>])]
    /\ UNCHANGED <<daily_views, top_categories_cache, now, today, last>>
    /\ UNCHANGED <<buildVars, walkVars, registryVars>>

\* the clock
Tick(dt) ==
    /\ now + dt <= MaxNow
    /\ now' = now + dt
    /\ UNCHANGED <<files, daily_views, top_categories_cache, today, last>>
    /\ UNCHANGED <<buildVars, walkVars, registryVars>>

NextCache ==
    \/ \E key \in CacheKeys : TopCategories(key[1], key[2], key[3])
    \/ \E d \in Dates : PublishDay(d)
    \/ \E dt \in TickSteps : Tick(dt)

SpecCache == InitCache /\ [][NextCache]_vars

----------------------------------------------------------------------------
(* Claims about the ranking cache                                          *)

\* the step is a call of get_top_categories with the given key
TopCall(key) ==
    /\ last' # last
    /\ IsSome(last') /\ Unwrap(last').op = "top_categories"
    /\ Unwrap(last').key = key

\* C4: once a top_categories(start, end, N) miss has stored its result, an
\* identical call made before the entry's TTL has elapsed is a cache hit that
\* returns the stored result and computes nothing; an identical call made
\* after the TTL has elapsed computes afresh and replaces the entry; an
\* expired entry is never returned, swept or not.
C4_CacheFreshness ==
    [][\A key \in CacheKeys :
          (TopCall(key) /\ key \in DOMAIN top_categories_cache.cache) =>
              LET entry == top_categories_cache.cache[key]
                  l == Unwrap(last')
              IN /\ now - entry.created_at < entry.ttl =>
                       /\ l.hit
                       /\ l.results = entry.data
                       /\ UNCHANGED <<daily_views, top_categories_cache>>
                 /\ now - entry.created_at > entry.ttl =>
                       /\ ~l.hit
                       /\ key \in DOMAIN top_categories_cache'.cache
                       /\ top_categories_cache'.cache[key].created_at = now
                       /\ top_categories_cache'.cache[key].data = l.results
                       /\ \A d \in key[1]..key[2] :
                             IsSome(files[d]) => IsSome(daily_views'[d])]_vars

\* a hit on an entry stored earlier, while a day file published since is
\* still unloaded and another entry, expired, is still in the cache
C4_Witness ==
    /\ LastTop /\ IsSome(Unwrap(last).prior)
    /\ LET l == Unwrap(last)
           entry == Unwrap(l.prior)
       IN /\ l.hit /\ l.at = now /\ l.at > entry.created_at
          /\ l.key[2] = 2 /\ IsSome(files[2]) /\ ~IsSome(daily_views[2])
          /\ \E k \in DOMAIN top_categories_cache.cache :
                is_expired(top_categories_cache.cache[k], now)

----------------------------------------------------------------------------
(* SpecRegistry: blocking tasks running get_or_build_engine concurrently   *)

InitRegistry ==
    /\ categories = CatSnapshot
    /\ articles = ArtSnapshot
    /\ category_graph = HierarchyScenario
    /\ article_category = MembershipScenario
    /\ graph = None
    /\ engines = [w \in Wikis |-> None]
    /\ engines_lock = [holder |-> None, poisoned |-> FALSE]
    /\ task = [t \in Tasks |-> [pc |-> "idle", wiki |-> "aawiki", ret |-> None]]
    /\ constructed = <<>>
    /\ snapshot_ok \in [Wikis -> BOOLEAN]
    /\ WalkIdle /\ EngineIdle

\* a request reaches get_or_build_engine: the closure is handed to a
\* blocking thread
Call(t, wiki) ==
    /\ task[t].pc \in {"idle", "done"}
    /\ task' = [task EXCEPT ![t] = [pc |-> "write", wiki |-> wiki, ret |-> None]]
    /\ UNCHANGED <<engines, engines_lock, constructed, snapshot_ok>>
    /\ UNCHANGED <<buildVars, walkVars, engineVars>>

\* state.engines.write(): an error on a poisoned lock, else the guard once
\* the lock is free
AcquireWrite(t) ==
    /\ task[t].pc = "write"
    /\ IF engines_lock.poisoned
       THEN /\ task' = [task EXCEPT ![t].pc = "done",
                                    ![t].ret = Some([ok |-> FALSE, handle |-> 0])]
            /\ UNCHANGED engines_lock
       ELSE /\ write_granted(engines_lock)
            /\ engines_lock' = [engines_lock EXCEPT !.holder = Some(t)]
            /\ task' = [task EXCEPT ![t].pc = "lookup"]
    /\ UNCHANGED <<engines, constructed, snapshot_ok>>
    /\ UNCHANGED <<buildVars, walkVars, engineVars>>

\* if let Some(engine) = engines.get(&wiki): the handle is returned and the
\* guard dropped; else the task goes on to build, the guard still held
Lookup(t) ==
    /\ task[t].pc = "lookup"
    /\ LET engine == engines_get(engines, task[t].wiki) IN
       IF IsSome(engine)
       THEN /\ task' = [task EXCEPT ![t].pc = "done",
                                    ![t].ret = Some([ok |-> TRUE, handle |-> Unwrap(engine)])]
            /\ engines_lock' = [engines_lock EXCEPT !.holder = None]
       ELSE /\ task' = [task EXCEPT ![t].pc = "build"]
            /\ UNCHANGED engines_lock
    /\ UNCHANGED <<engines, constructed, snapshot_ok>>
    /\ UNCHANGED <<buildVars, walkVars, engineVars>>

\* PageViewEngine::new(&wiki) and engines.insert: the engine is registered
\* and returned and the guard dropped; a build that fails panics, which
\* poisons the lock and fails the task
BuildEngine(t) ==
    /\ task[t].pc = "build"
    /\ IF snapshot_ok[task[t].wiki]
       THEN LET new_engine == Len(constructed) + 1 IN
            /\ constructed' = Append(constructed, task[t].wiki)
            /\ engines' = engines_insert(engines, task[t].wiki, new_engine)
            /\ engines_lock' = [engines_lock EXCEPT !.holder = None]
            /\ task' = [task EXCEPT ![t].pc = "done",
                                    ![t].ret = Some([ok |-> TRUE, handle |-> new_engine])]
       ELSE /\ engines_lock' = [holder |-> None, poisoned |-> TRUE]
            /\ task' = [task EXCEPT ![t].pc = "done",
                                    ![t].ret = Some([ok |-> FALSE, handle |-> 0])]
            /\ UNCHANGED <<engines, constructed>>
    /\ UNCHANGED snapshot_ok
    /\ UNCHANGED <<buildVars, walkVars, engineVars>>

NextRegistry ==
    \/ \E t \in Tasks : \E w \in Wikis : Call(t, w)
    \/ \E t \in Tasks : AcquireWrite(t)
    \/ \E t \in Tasks : Lookup(t)
    \/ \E t \in Tasks : BuildEngine(t)

SpecRegistry == InitRegistry /\ [][NextRegistry]_vars

----------------------------------------------------------------------------
(* Claims about the registry                                               *)

\* the engines constructed for wiki w
EnginesOf(w) == {h \in 1..Len(constructed) : constructed[h] = w}

\* C8: under any interleaving of concurrent get_or_build calls at most one
\* engine is ever constructed per wiki, an engine once registered is never
\* replaced, and every call for w that returns a handle returns the handle
\* of that one engine; a call returns no handle only after a build has
\* failed.
C8_OneEnginePerWiki ==
    /\ \A w \in Wikis :
          /\ Cardinality(EnginesOf(w)) <= 1
          /\ EnginesOf(w) = IF IsSome(engines[w]) THEN {Unwrap(engines[w])} ELSE {}
    /\ \A t \in Tasks :
          IsSome(task[t].ret) =>
              IF Unwrap(task[t].ret).ok
              THEN EnginesOf(task[t].wiki) = {Unwrap(task[t].ret).handle}
              ELSE engines_lock.poisoned
    /\ Cardinality({t \in Tasks : task[t].pc \in {"lookup", "build"}}) <= 1

\* two tasks called for the same wiki while its engine did not exist yet,
\* and both hold the handle of the one engine built; the other wiki has its
\* own engine
C8_Witness ==
    /\ \E t1 \in Tasks : \E t2 \in Tasks :
          /\ t1 # t2
          /\ task[t1].wiki = task[t2].wiki
          /\ IsSome(task[t1].ret) /\ IsSome(task[t2].ret)
          /\ Unwrap(task[t1].ret).ok /\ Unwrap(task[t2].ret).ok
          /\ Unwrap(task[t1].ret).handle = 2
          /\ Unwrap(task[t2].ret).handle = 2
    /\ Len(constructed) = 2

\* C9: get_or_build holds the registry's lock for the map lookup and insert
\* only, never while an engine is being built, so that during the build for
\* wiki A a call for a registered wiki B can take the lock and return.
C9_LockFreeWhileBuilding ==
    \A t \in Tasks :
        task[t].pc = "build" =>
            /\ engines_lock.holder # Some(t)
            /\ \A t2 \in Tasks \ {t} :
                  (task[t2].pc = "write" /\ IsSome(engines[task[t2].wiki])) =>
                      write_granted(engines_lock)

----------------------------------------------------------------------------
(* SpecQuery: the topology queries of a built graph, each as one call.     *)
(* The first query of a graph is any of them; an articles query can be     *)
(* asked again one level deeper, as the simulation's verify does.          *)

\* the depths a first query asks for
QueryDepths == 0..MaxDepth \cup {U8_MAX - 1, U8_MAX}

\* the depths a first articles query asks for; the deeper ones are asked next
FirstArticleDepths == {0, U8_MAX - 1}

\* the ids asked about: every category and article of the snapshot and the
\* ids that are in neither
QueryQids == CatQids \cup ArtQids \cup UnknownQids

InitQuery ==
    /\ categories = CatSnapshot
    /\ articles = ArtSnapshot
    /\ category_graph \in WalkHierarchies
    /\ article_category = MembershipScenario
    /\ graph = Some(build(categories, articles, category_graph, article_category))
    /\ WalkIdle /\ EngineIdle /\ RegistryIdle

\* the record of a query: what was asked and what came back
Answer(op, qid, depth, outcome, set, list) ==
    Some([op |-> op, qid |-> qid, depth |-> depth, outcome |-> outcome,
          set |-> set, list |-> list])

QueryFrame ==
    /\ UNCHANGED <<files, daily_views, top_categories_cache, now, today>>
    /\ UNCHANGED <<buildVars, walkVars, registryVars>>

ChildCategories(qid) ==
    /\ last = None
    /\ last' = Answer("child_categories", qid, 0, "Ok", {},
                      get_child_categories(Unwrap(graph), qid))
    /\ QueryFrame

ParentCategories(qid) ==
    /\ last = None
    /\ last' = Answer("parent_categories", qid, 0, "Ok", {},
                      get_parent_categories(Unwrap(graph), qid))
    /\ QueryFrame

DescendantCategories(qid, max_depth) ==
    /\ last = None
    /\ last' = Answer("descendant_categories", qid, max_depth, "Ok", {},
                      get_descendant_categories(Unwrap(graph), qid, max_depth))
    /\ QueryFrame

ArticlesInCategory(qid, max_depth) ==
    /\ last = None
    /\ last' = Answer("articles_in_category", qid, max_depth, "Ok",
                      get_articles_in_category(Unwrap(graph), qid, max_depth), <<>>)
    /\ QueryFrame

\* the same category asked for one level deeper
ArticlesOneDeeper ==
    /\ IsSome(last) /\ Unwrap(last).op = "articles_in_category"
    /\ Unwrap(last).depth < MaxDepth \/ Unwrap(last).depth = U8_MAX - 1
    /\ last' = Answer("articles_in_category", Unwrap(last).qid, Unwrap(last).depth + 1, "Ok",
                      get_articles_in_category(Unwrap(graph), Unwrap(last).qid,
                                               Unwrap(last).depth + 1), <<>>)
    /\ QueryFrame

CategoriesForArticle(qid) ==
    /\ last = None
    /\ last' = Answer("categories_for_article", qid, 0, "Ok", {},
                      get_categories_for_article(Unwrap(graph), qid))
    /\ QueryFrame

\* the web service's categories of an article
ArticleCategories(qid) ==
    /\ last = None
    /\ LET r == ArticleService_get_article_categories(Unwrap(graph), qid) IN
       last' = Answer("article_categories", qid, 0, r.outcome, {}, r.category_qids)
    /\ QueryFrame

NextQuery ==
    \/ \E q \in QueryQids : ChildCategories(q)
    \/ \E q \in QueryQids : ParentCategories(q)
    \/ \E q \in QueryQids : \E d \in QueryDepths : DescendantCategories(q, d)
    \/ \E q \in QueryQids : \E d \in FirstArticleDepths : ArticlesInCategory(q, d)
    \/ ArticlesOneDeeper
    \/ \E q \in QueryQids : CategoriesForArticle(q)
    \/ \E q \in QueryQids : ArticleCategories(q)

SpecQuery == InitQuery /\ [][NextQuery]_vars

----------------------------------------------------------------------------
(* Claims about the topology queries                                       *)

\* the id has no dense id of the kind the query looks up
NoDenseId(op, qid) ==
    IF op \in {"categories_for_article", "article_categories"}
    THEN qid \notin Range(articles)
    ELSE qid \notin Range(categories)

\* C11: child_categories, parent_categories, descendant_categories,
\* articles_in_category and categories_of_article, called with a QID that has
\* no dense id in the graph, each return an empty result and never an error
\* or a not-found outcome.
C11_UnknownQidIsEmpty ==
    (IsSome(last) /\ NoDenseId(Unwrap(last).op, Unwrap(last).qid)) =>
        /\ Unwrap(last).outcome = "Ok"
        /\ Unwrap(last).set = {}
        /\ Unwrap(last).list = <<>>

\* C13: for every category c and every depth d < 255,
\* articles_in_category(c, d + 1) is a superset of articles_in_category(c, d).
C13_DeeperIsSuperset ==
    [][(/\ IsSome(last) /\ IsSome(last')
        /\ Unwrap(last).op = "articles_in_category"
        /\ Unwrap(last').op = "articles_in_category"
        /\ Unwrap(last').qid = Unwrap(last).qid
        /\ Unwrap(last').depth = Unwrap(last).depth + 1)
           => Unwrap(last).set \subseteq Unwrap(last').set]_vars

\* category 2 has no article of its own and its child 3 has some: asked one
\* level deeper than 0, the query for 2 returned the articles of 3
C13_Witness ==
    /\ IsSome(last) /\ Unwrap(last).op = "articles_in_category"
    /\ Unwrap(last).qid = 2 /\ Unwrap(last).depth = 1
    /\ <<2, 3>> \in Hierarchy
    /\ MembersOf(2) = {} /\ MembersOf(3) # {}
    /\ MembersOf(3) \subseteq Unwrap(last).set

----------------------------------------------------------------------------
(* SpecRank: the ranking phase of get_top_categories (sort, take, filter)  *)
(* applied to every vector of category scores                              *)

InitRank ==
    /\ categories = CatSnapshot
    /\ articles = ArtSnapshot
    /\ category_graph = HierarchyScenario
    /\ article_category = MembershipScenario
    /\ graph = Some(build(categories, articles, category_graph, article_category))
    /\ WalkIdle /\ EngineIdle /\ RegistryIdle

\* phase 3 of get_top_categories on the scores cat_scores
RankCategories(cat_scores, top_n) ==
    /\ last' = Some([op |-> "rank_categories", cat_scores |-> cat_scores,
                     top_n |-> top_n,
                     results |-> rank_categories(
                         Unwrap(graph),
                         [cat_scores |-> cat_scores,
                          cat_articles |-> [i \in 1..Len(cat_scores) |-> <<>>]],
                         top_n)])
    /\ QueryFrame

NextRank ==
    \E cat_scores \in [1..Len(CatSnapshot) -> Scores] :
        \E top_n \in 0..Len(CatSnapshot) : RankCategories(cat_scores, top_n)

SpecRank == InitRank /\ [][NextRank]_vars

----------------------------------------------------------------------------
(* Claims about the ranking phase                                          *)

\* the dense id of category q: its position in the snapshot
DenseOf(q) == CHOOSE d \in 0..(Len(categories) - 1) : categories[d + 1] = q

\* C14: the list top_categories returns is sorted by total views descending,
\* and categories with equal totals appear in insertion order (ascending
\* dense id, the order of the categories in the snapshot).
C14_SortedStable ==
    (IsSome(last) /\ Unwrap(last).op = "rank_categories") =>
        LET l == Unwrap(last) IN
        /\ \A i \in 1..Len(l.results) :
              l.results[i].total_views = l.cat_scores[DenseOf(l.results[i].category_qid) + 1]
        /\ \A i \in 1..Len(l.results) : \A j \in 1..Len(l.results) :
              i < j =>
                  \/ l.results[i].total_views > l.results[j].total_views
                  \/ /\ l.results[i].total_views = l.results[j].total_views
                     /\ DenseOf(l.results[i].category_qid) < DenseOf(l.results[j].category_qid)

\* three categories ranked, the two behind the first with equal totals: the
\* one earlier in the snapshot comes first
C14_Witness ==
    /\ IsSome(last) /\ Unwrap(last).op = "rank_categories"
    /\ Unwrap(last).cat_scores = <<1, 2, 1>>
    /\ Len(Unwrap(last).results) = 3
    /\ Unwrap(last).results[1].category_qid = 1
    /\ Unwrap(last).results[2].category_qid = 3
    /\ Unwrap(last).results[3].category_qid = 2

----------------------------------------------------------------------------
(* SpecArticles: the first top-articles query of a new engine, over every  *)
(* set of day files                                                        *)

\* a call of PageViewEngine::get_top_articles_in_category
TopArticlesInCategory(category_qid, start_date, end_date, depth, top_n) ==
    /\ last = None
    /\ \E r \in get_top_articles_in_category(Unwrap(graph), daily_views, files,
                    category_qid, start_date, end_date, depth, top_n) :
          /\ daily_views' = r.daily_views
          /\ last' = Some([op |-> "top_articles_in_category",
                           category_qid |-> category_qid, depth |-> depth,
                           start_date |-> start_date, end_date |-> end_date,
                           top_n |-> top_n, panicked |-> r.panicked,
                           result |-> r.result])
    /\ UNCHANGED <<files, top_categories_cache, now, today>>
    /\ UNCHANGED <<buildVars, walkVars, registryVars>>

NextArticles ==
    \E q \in CatQids \cup {0} : \E d \in EngineDepths :
        \E s \in Dates : \E e \in Dates : \E n \in 0..Len(ArtSnapshot) :
            TopArticlesInCategory(q, s, e, d, n)

SpecArticles == InitTrend /\ [][NextArticles]_vars

----------------------------------------------------------------------------
(* Claims about the top articles of a category                             *)

\* the dense id of article q: its position in the snapshot
DenseOfArticle(q) == CHOOSE d \in 0..(Len(articles) - 1) : articles[d + 1] = q

\* C15: top_articles_in_category(c, window, depth, N) returns at most N
\* articles; each belongs to articles_in_category(c, depth) and carries its
\* exact total of views over the window; the list is sorted by total
\* descending; no article of the set that was left out has a larger total
\* than a returned one.
C15_TopArticles ==
    (IsSome(last) /\ Unwrap(last).op = "top_articles_in_category"
        /\ ~Unwrap(last).panicked) =>
        LET l == Unwrap(last)
            A == ArticleSet(l.category_qid, l.depth)
            R == l.result.top_articles
            returned == {R[i].article_qid : i \in 1..Len(R)}
        IN /\ Len(R) <= l.top_n
           /\ Cardinality(returned) = Len(R)
           /\ \A i \in 1..Len(R) :
                 /\ R[i].article_qid \in Range(articles)
                 /\ DenseOfArticle(R[i].article_qid) \in A
                 /\ R[i].total_views =
                        WindowViews(DenseOfArticle(R[i].article_qid), l.start_date, l.end_date)
           /\ \A i \in 1..Len(R) : \A j \in 1..Len(R) :
                 i < j => R[i].total_views >= R[j].total_views
           /\ \A a \in A : \A i \in 1..Len(R) :
                 articles[a + 1] \notin returned =>
                     WindowViews(a, l.start_date, l.end_date) <= R[i].total_views

\* the two best of three articles over a window of two loaded days: the
\* article left out has fewer views than the two returned
C15_Witness ==
    /\ IsSome(last) /\ Unwrap(last).op = "top_articles_in_category"
    /\ Unwrap(last).top_n = 2 /\ Unwrap(last).start_date < Unwrap(last).end_date
    /\ Cardinality(ArticleSet(Unwrap(last).category_qid, Unwrap(last).depth)) = 3
    /\ Len(Unwrap(last).result.top_articles) = 2
    /\ Unwrap(last).result.top_articles[1].total_views = 8
    /\ Unwrap(last).result.top_articles[2].total_views = 4
    /\ \A d \in Unwrap(last).start_date..Unwrap(last).end_date : IsSome(daily_views[d])

----------------------------------------------------------------------------
(* DeltaService: topictrend_web/src/services/composite/delta_service.rs    *)
(* A top list is a sequence of <<qid, total_views>>; a map of views is a   *)
(* function from the QIDs it holds.  A percentage is the f64 quotient kept *)
(* as <<numerator, denominator>>.  Titles are left out.                    *)

\* PageViewEngine::get_article_trend: the day store after the call and one
\* row per date of the window
get_article_trend(g, dv, fs, article_qid, start_date, end_date) ==
    LET dense_id == DirectMap_get(g.art_original_to_dense, article_qid) IN
    IF ~IsSome(dense_id)
    THEN [daily_views |-> dv, panicked |-> FALSE, results |-> <<>>]
    ELSE LET loaded == load_history_for_date_range(dv, fs, start_date, end_date) IN
         IF loaded.panicked
         THEN [daily_views |-> loaded.daily_views, panicked |-> TRUE, results |-> <<>>]
         ELSE [daily_views |-> loaded.daily_views, panicked |-> FALSE,
               results |-> trend_rows(loaded.daily_views, {Unwrap(dense_id)},
                                      start_date, end_date, <<>>)]

\* views.iter().map(|(_, v)| v).sum()
sum_views(views) == SetSum(1..Len(views), [i \in 1..Len(views) |-> views[i][2]])

\* PageViewService::get_category_views / get_article_views of step 4
fetch_views(g, dv, fs, kind, qid, depth, start_date, end_date) ==
    IF kind = "category"
    THEN get_category_trend(g, dv, fs, qid, depth, start_date, end_date)
    ELSE get_article_trend(g, dv, fs, qid, start_date, end_date)

\* step 2: the QIDs of both lists, each once
all_qids_of(baseline_top, impact_top) ==
    {baseline_top[i][1] : i \in 1..Len(baseline_top)}
        \cup {impact_top[i][1] : i \in 1..Len(impact_top)}

\* the orders in which a HashSet may hand out its elements
into_iter_orders(S) ==
    {s \in [1..Cardinality(S) -> S] : Range(s) = S}

\* step 3: into_iter().map(|x| (x.qid, x.total_views)).collect(); a later
\* item replaces an earlier one of the same QID
collect_map(top) ==
    [q \in {top[i][1] : i \in 1..Len(top)} |->
        LET at == CHOOSE i \in 1..Len(top) :
                      top[i][1] = q /\ \A j \in 1..Len(top) : top[j][1] = q => j <= i
        IN top[at][2]]

\* HashMap::insert
map_insert(m, k, v) == [q \in DOMAIN m \cup {k} |-> IF q = k THEN v ELSE m[q]]

\* step 4, one side of one QID: a QID the map lacks gets the sum of its
\* views over the window
fetch_side(g, dv, fs, kind, qid, depth, start_date, end_date, m) ==
    IF qid \in DOMAIN m
    THEN [daily_views |-> dv, panicked |-> FALSE, map |-> m]
    ELSE LET r == fetch_views(g, dv, fs, kind, qid, depth, start_date, end_date) IN
         [daily_views |-> r.daily_views, panicked |-> r.panicked,
          map |-> IF r.panicked THEN m ELSE map_insert(m, qid, sum_views(r.results))]

\* step 4: for qid in &all_qids, the baseline side and then the impact side
RECURSIVE fetch_missing(_, _, _, _, _, _, _, _, _, _)
fetch_missing(g, dv, fs, kind, all_qids, i, depth, windows, baseline_map, impact_map) ==
    IF i > Len(all_qids)
    THEN [daily_views |-> dv, panicked |-> FALSE,
          final_baseline_map |-> baseline_map, final_impact_map |-> impact_map]
    ELSE LET b == fetch_side(g, dv, fs, kind, all_qids[i], depth,
                             windows[1], windows[2], baseline_map)
         IN IF b.panicked
            THEN [daily_views |-> b.daily_views, panicked |-> TRUE,
                  final_baseline_map |-> baseline_map, final_impact_map |-> impact_map]
            ELSE LET m == fetch_side(g, b.daily_views, fs, kind, all_qids[i], depth,
                                     windows[3], windows[4], impact_map)
                 IN IF m.panicked
                    THEN [daily_views |-> m.daily_views, panicked |-> TRUE,
                          final_baseline_map |-> b.map, final_impact_map |-> impact_map]
                    ELSE fetch_missing(g, m.daily_views, fs, kind, all_qids, i + 1,
                                       depth, windows, b.map, m.map)

\* final_map.get(qid).unwrap_or(&0)
get_or_zero(m, qid) == IF qid \in DOMAIN m THEN m[qid] ELSE 0

\* the difference that never goes below zero
absolute_delta_saturating(baseline_views, impact_views) ==
    IF impact_views > baseline_views THEN impact_views - baseline_views ELSE 0

\* impact_views as i64 - baseline_views as i64
absolute_delta(baseline_views, impact_views) == impact_views - baseline_views

\* the delta_percentage of step 5
delta_percentage(baseline_views, impact_views) ==
    IF baseline_views = 0
    THEN IF impact_views > 0 THEN <<100, 1>> ELSE <<0, 1>>
    ELSE <<(impact_views - baseline_views) * 100, baseline_views>>

\* step 5: one item per QID of all_qids, in its order
delta_items(all_qids, final_baseline_map, final_impact_map) ==
    [i \in 1..Len(all_qids) |->
        LET baseline_views == get_or_zero(final_baseline_map, all_qids[i])
            impact_views == get_or_zero(final_impact_map, all_qids[i])
        IN [qid |-> all_qids[i],
            baseline_views |-> baseline_views,
            impact_views |-> impact_views,
            delta_percentage |-> delta_percentage(baseline_views, impact_views),
            absolute_delta |-> absolute_delta(baseline_views, impact_views)]]

\* i64::abs
abs(x) == IF x < 0 THEN 0 - x ELSE x

\* step 6: delta_items.sort_by(|a, b| b.absolute_delta.abs().cmp(..)), a
\* stable sort
sort_by_abs_delta(items) ==
    sort_desc(items, Len(items), [x \in Range(items) |-> abs(x.absolute_delta)])

\* steps 2 to 6 on the two top lists: the outcomes, one per order of the
\* HashSet
delta_steps(g, dv, fs, kind, depth, windows, baseline_top, impact_top) ==
    {LET fetched == fetch_missing(g, dv, fs, kind, all_qids, 1, depth, windows,
                                  collect_map(baseline_top), collect_map(impact_top))
     IN [daily_views |-> fetched.daily_views, panicked |-> fetched.panicked,
         baseline_top |-> baseline_top, impact_top |-> impact_top,
         items |-> IF fetched.panicked THEN <<>>
                   ELSE sort_by_abs_delta(delta_items(all_qids,
                            fetched.final_baseline_map, fetched.final_impact_map))] :
        all_qids \in into_iter_orders(all_qids_of(baseline_top, impact_top))}

\* a call that ended in a panic or an error before step 2
delta_failed(dv) ==
    [daily_views |-> dv, panicked |-> TRUE, baseline_top |-> <<>>,
     impact_top |-> <<>>, items |-> <<>>]

\* the top list of a CategoryRank
top_list_of_articles(rank) ==
    [i \in 1..Len(rank.top_articles) |->
        <<rank.top_articles[i].article_qid, rank.top_articles[i].total_views>>]

\* the top list of a ranking of categories
top_list_of_categories(results) ==
    [i \in 1..Len(results) |-> <<results[i].category_qid, results[i].total_views>>]

\* DeltaService::get_article_delta: the outcomes the call can have
get_article_delta(g, dv, fs, category_qid, windows, limit, depth) ==
    UNION {IF b.panicked THEN {delta_failed(b.daily_views)}
           ELSE UNION {IF m.panicked THEN {delta_failed(m.daily_views)}
                       ELSE delta_steps(g, m.daily_views, fs, "article", depth, windows,
                                        top_list_of_articles(b.result),
                                        top_list_of_articles(m.result)) :
                       m \in get_top_articles_in_category(g, b.daily_views, fs, category_qid,
                                 windows[3], windows[4], depth, limit)} :
           b \in get_top_articles_in_category(g, dv, fs, category_qid,
                     windows[1], windows[2], depth, limit)}

\* DeltaService::get_category_delta: the outcomes the call can have, each
\* with the cache it leaves
get_category_delta(g, dv, fs, tc, windows, limit, depth, instant, today_date) ==
    LET b == get_top_categories(g, dv, fs, tc, <<windows[1], windows[2], limit>>,
                                instant, today_date)
        m == get_top_categories(g, b.daily_views, fs, b.top_categories_cache,
                                <<windows[3], windows[4], limit>>, instant, today_date)
    IN IF b.panicked
       THEN {[outcome |-> delta_failed(b.daily_views),
              top_categories_cache |-> b.top_categories_cache]}
       ELSE IF m.panicked
            THEN {[outcome |-> delta_failed(m.daily_views),
                   top_categories_cache |-> m.top_categories_cache]}
            ELSE {[outcome |-> o, top_categories_cache |-> m.top_categories_cache] :
                     o \in delta_steps(g, m.daily_views, fs, "category", depth, windows,
                                       top_list_of_categories(b.results),
                                       top_list_of_categories(m.results))}

----------------------------------------------------------------------------
(* SpecDelta: the first delta query of a new engine, over every set of day *)
(* files                                                                   *)

\* the windows of a delta query: <<baseline_start, baseline_end,
\* impact_start, impact_end>>, each window in order
DeltaWindows ==
    {w \in Dates \X Dates \X Dates \X Dates : w[1] <= w[2] /\ w[3] <= w[4]}

\* the limits of a delta query
DeltaLimits == 0..Len(ArtSnapshot)

DeltaAnswer(kind, category_qid, windows, limit, depth, o) ==
    Some([op |-> "delta", kind |-> kind, category_qid |-> category_qid,
          windows |-> windows, limit |-> limit, depth |-> depth,
          panicked |-> o.panicked, baseline_top |-> o.baseline_top,
          impact_top |-> o.impact_top, items |-> o.items])

\* a call of DeltaService::get_article_delta
ArticleDelta(category_qid, windows, limit, depth) ==
    /\ last = None
    /\ \E o \in get_article_delta(Unwrap(graph), daily_views, files, category_qid,
                                  windows, limit, depth) :
          /\ daily_views' = o.daily_views
          /\ last' = DeltaAnswer("article", category_qid, windows, limit, depth, o)
    /\ UNCHANGED <<files, top_categories_cache, now, today>>
    /\ UNCHANGED <<buildVars, walkVars, registryVars>>

\* a call of DeltaService::get_category_delta
CategoryDelta(windows, limit, depth) ==
    /\ last = None
    /\ \E r \in get_category_delta(Unwrap(graph), daily_views, files, top_categories_cache,
                                   windows, limit, depth, now, today) :
          /\ daily_views' = r.outcome.daily_views
          /\ top_categories_cache' = r.top_categories_cache
          /\ last' = DeltaAnswer("category", 0, windows, limit, depth, r.outcome)
    /\ UNCHANGED <<files, now, today>>
    /\ UNCHANGED <<buildVars, walkVars, registryVars>>

NextDelta ==
    \E w \in DeltaWindows : \E n \in DeltaLimits : \E d \in EngineDepths :
        \/ \E q \in CatQids \cup {0} : ArticleDelta(q, w, n, d)
        \/ CategoryDelta(w, n, d)

SpecDelta == InitTop /\ [][NextDelta]_vars

----------------------------------------------------------------------------
(* Claims about the delta of two windows                                   *)

LastDelta == IsSome(last) /\ Unwrap(last).op = "delta" /\ ~Unwrap(last).panicked

\* C16: the delta result has exactly one item for each QID in the union of
\* the baseline top-N and the impact top-N; each item has absolute_delta =
\* impact_views - baseline_views and delta_pct 100 when baseline_views = 0
\* and impact_views > 0, 0 when both are 0, 100*(impact-baseline)/baseline
\* otherwise; the items are ordered by |absolute_delta| descending.
C16_DeltaItems ==
    LastDelta =>
        LET l == Unwrap(last)
            R == l.items
            union == {l.baseline_top[i][1] : i \in 1..Len(l.baseline_top)}
                         \cup {l.impact_top[i][1] : i \in 1..Len(l.impact_top)}
        IN /\ {R[i].qid : i \in 1..Len(R)} = union
           /\ Len(R) = Cardinality(union)
           /\ \A i \in 1..Len(R) :
                 /\ R[i].absolute_delta = R[i].impact_views - R[i].baseline_views
                 /\ R[i].delta_percentage[2] > 0
                 /\ IF R[i].baseline_views = 0
                    THEN R[i].delta_percentage[1] =
                             (IF R[i].impact_views > 0 THEN 100 ELSE 0)
                                 * R[i].delta_percentage[2]
                    ELSE R[i].delta_percentage[1] * R[i].baseline_views =
                             100 * (R[i].impact_views - R[i].baseline_views)
                                 * R[i].delta_percentage[2]
           /\ \A i \in 1..Len(R) : \A j \in 1..Len(R) :
                 i < j => abs(R[i].absolute_delta) >= abs(R[j].absolute_delta)

\* three articles in the union of two top-2 lists that differ, one of them
\* with fewer views in the impact window than in the baseline window
C16_Witness ==
    /\ LastDelta /\ Unwrap(last).kind = "article" /\ Unwrap(last).limit = 2
    /\ Len(Unwrap(last).baseline_top) = 2 /\ Len(Unwrap(last).impact_top) = 2
    /\ Len(Unwrap(last).items) = 3
    /\ \E i \in 1..3 : Unwrap(last).items[i].absolute_delta < 0
    /\ \E i \in 1..3 : Unwrap(last).items[i].absolute_delta > 0
    /\ \E i \in 1..3 : /\ Unwrap(last).items[i].baseline_views = 0
                       /\ Unwrap(last).items[i].impact_views > 0

----------------------------------------------------------------------------
(* SpecTtl: the first insert into a new cache, for every day it can happen *)
(* on and every key                                                        *)

\* the day of the insert
TtlTodays == {40, 41, 47}

\* the end dates of the keys: long past, a month, a week and a day before
\* the insert, the day itself, and days after it
TtlEndDates == {0, 9, 10, 11, 33, 34, 39, 40, 41, 42, 45, 50}

\* the keys <<start, end, top_n>> of the inserts
TtlKeys ==
    {k \in (TtlEndDates \X TtlEndDates \X TopNs) : k[1] = 0 \/ k[1] = k[2]}

InitTtl ==
    /\ categories = <<>>
    /\ articles = <<>>
    /\ category_graph = <<>>
    /\ article_category = <<>>
    /\ graph = None
    /\ files = <<>>
    /\ daily_views = <<>>
    /\ top_categories_cache = TopCategoriesCache_new(0)
    /\ now = 0
    /\ today \in TtlTodays
    /\ last = None
    /\ WalkIdle /\ RegistryIdle

\* a call of TopCategoriesCache::insert
CacheInsert(key) ==
    /\ last = None
    /\ top_categories_cache' =
           TopCategoriesCache_insert(top_categories_cache, key, <<>>, now, today)
    /\ last' = Some([op |-> "cache_insert", key |-> key, today |-> today])
    /\ UNCHANGED <<files, daily_views, now, today>>
    /\ UNCHANGED <<buildVars, walkVars, registryVars>>

NextTtl == \E key \in TtlKeys : CacheInsert(key)

SpecTtl == InitTtl /\ [][NextTtl]_vars

----------------------------------------------------------------------------
(* Claims about the TTL of a cache entry                                   *)

\* the TTL the recency rule gives an end date days_away whole days from
\* the day of the insert
TtlOfDistance(days_away) ==
    IF days_away <= 1 THEN 15 * 60
    ELSE IF days_away <= 7 THEN 60 * 60
    ELSE IF days_away <= 30 THEN 6 * 60 * 60
    ELSE 24 * 60 * 60

LastInsert == IsSome(last) /\ Unwrap(last).op = "cache_insert"

\* C17: the TTL given to a top-categories cache entry at insert is a
\* function of the whole-day distance between today and the end date of the
\* key only, for every end date: at most 1 day -> 15 minutes, at most 7
\* days -> 1 hour, at most 30 days -> 6 hours, otherwise 24 hours; it does
\* not depend on the start date or on N.
C17_TtlByDistance ==
    LastInsert =>
        LET l == Unwrap(last) IN
        /\ l.key \in DOMAIN top_categories_cache.cache
        /\ top_categories_cache.cache[l.key].ttl = TtlOfDistance(abs(l.today - l.key[2]))

\* the rule the entries do follow: the signed difference today - end, so
\* that every end date after today gets 15 minutes
TtlByDaysAgo ==
    LastInsert =>
        LET l == Unwrap(last) IN
        /\ l.key \in DOMAIN top_categories_cache.cache
        /\ top_categories_cache.cache[l.key].ttl = TtlOfDistance(l.today - l.key[2])

----------------------------------------------------------------------------
(* SpecLoad: load_nodes on every node snapshot within the bounds, repeated *)
(* ids included                                                            *)

\* the page ids a snapshot may hold and the most rows it has
LoadIds == {0, 1, 2, 5}
MaxNodes == 3

\* a snapshot read, nothing loaded yet
InitLoad ==
    /\ categories \in SeqsUpTo(LoadIds, MaxNodes)
    /\ articles = <<>>
    /\ category_graph = <<>>
    /\ article_category = <<>>
    /\ graph = None
    /\ WalkIdle /\ EngineIdle /\ RegistryIdle

\* a call of GraphBuilder::load_nodes on the snapshot
LoadNodes ==
    /\ last = None
    /\ LET r == load_nodes(categories) IN
       last' = Some([op |-> "load_nodes", dense_to_original |-> r.dense_to_original,
                     mapper |-> r.mapper])
    /\ UNCHANGED <<files, daily_views, top_categories_cache, now, today>>
    /\ UNCHANGED <<buildVars, walkVars, registryVars>>

NextLoad == LoadNodes

SpecLoad == InitLoad /\ [][NextLoad]_vars

----------------------------------------------------------------------------
(* Claims about the id maps                                                *)

LastLoad == IsSome(last) /\ Unwrap(last).op = "load_nodes"

\* the two maps are inverse of each other over the N dense ids
MutuallyInverse(dense_to_original, mapper, known) ==
    LET N == Len(dense_to_original) IN
    /\ \A q \in known :
          LET d == DirectMap_get(mapper, q) IN
          /\ IsSome(d)
          /\ Unwrap(d) < N
          /\ dense_to_original[Unwrap(d) + 1] = q
    /\ {Unwrap(DirectMap_get(mapper, q)) : q \in known} = 0..(N - 1)
    /\ \A d \in 0..(N - 1) :
          DirectMap_get(mapper, dense_to_original[d + 1]) = Some(d)

\* C18: after load_nodes on any node snapshot (one that repeats an id
\* included) the two id maps are mutually inverse: the dense ids are exactly
\* 0..N-1, every dense id of a known QID is < N,
\* dense_to_external[external_to_dense[q]] = q for every known QID q, and
\* external_to_dense[dense_to_external[d]] = d for every valid dense id d.
C18_IdMapsInverse ==
    LastLoad =>
        MutuallyInverse(Unwrap(last).dense_to_original, Unwrap(last).mapper,
                        Range(categories))

\* what load_nodes does give: the maps are inverse on every snapshot whose
\* ids are all different
InverseWhenDistinct ==
    (LastLoad /\ NoRepeat(categories)) =>
        MutuallyInverse(Unwrap(last).dense_to_original, Unwrap(last).mapper,
                        Range(categories))

----------------------------------------------------------------------------
(* SpecCsr: from_pairs on every list of pairs within the bounds, then get  *)
(* for ids inside and outside the node range.  categories holds the dense  *)
(* ids 0..N-1, category_graph the pairs, graph the adjacency built.        *)

\* the most pairs of a list
MaxPairs == 3

\* the sources of the pairs (MaxNodes is out of range for every N) and
\* their destinations
CsrSources == 0..MaxNodes
CsrTargets == {1, 7}

\* the ids asked of get
CsrIds == 0..(MaxNodes + 2)

InitCsr ==
    /\ categories \in {[i \in 1..n |-> i - 1] : n \in 0..MaxNodes}
    /\ articles = <<>>
    /\ category_graph \in SeqsUpTo(CsrSources \X CsrTargets, MaxPairs)
    /\ article_category = <<>>
    /\ graph = None
    /\ WalkIdle /\ EngineIdle /\ RegistryIdle

\* a call of CsrAdjacency::from_pairs
FromPairs ==
    /\ graph = None
    /\ graph' = Some(from_pairs(Len(categories), category_graph))
    /\ UNCHANGED <<categories, articles, category_graph, article_category>>
    /\ UNCHANGED <<walkVars, engineVars, registryVars>>

\* a call of CsrAdjacency::get
Get(id) ==
    /\ graph # None
    /\ EngineAlive
    /\ LET r == CsrAdjacency_get(Unwrap(graph), id) IN
       last' = Some([op |-> "get", id |-> id, panicked |-> r = Panic,
                     neighbors |-> IF r = Panic THEN <<>> ELSE r])
    /\ UNCHANGED <<files, daily_views, top_categories_cache, now, today>>
    /\ UNCHANGED <<buildVars, walkVars, registryVars>>

NextCsr ==
    \/ FromPairs
    \/ \E id \in CsrIds : Get(id)

SpecCsr == InitCsr /\ [][NextCsr]_vars

----------------------------------------------------------------------------
(* Claims about the CSR adjacency                                          *)

\* C19: for a CSR adjacency built with num_nodes = N, get(id) returns an
\* empty slice, without failing, for every id >= N (id = N included).
C19_OutOfRangeIsEmpty ==
    (IsSome(last) /\ Unwrap(last).op = "get" /\ Unwrap(last).id >= Len(categories)) =>
        /\ ~Unwrap(last).panicked
        /\ Unwrap(last).neighbors = <<>>

\* what get does give: an empty slice for every id above N
EmptyAboveN ==
    (IsSome(last) /\ Unwrap(last).op = "get" /\ Unwrap(last).id > Len(categories)) =>
        /\ ~Unwrap(last).panicked
        /\ Unwrap(last).neighbors = <<>>

\* the pairs of source i with destination v
PairsOf(i, v) ==
    {k \in 1..Len(category_graph) : category_graph[k] = <<i, v>>}

\* C20: for every N and every sequence of (source, destination) pairs,
\* from_pairs yields for each i < N a list get(i) that is exactly the
\* multiset of the destinations of the pairs with source i (duplicates
\* kept, the lists of different nodes never overlapping), while the pairs
\* with source >= N are in no list and cause no failure.
C20_FromPairs ==
    IsSome(graph) =>
        LET csr == Unwrap(graph)
            N == Len(categories)
            in_range == {k \in 1..Len(category_graph) : category_graph[k][1] < N}
        IN /\ Len(csr.offsets) = N + 1
           /\ csr.offsets[1] = 0
           /\ \A i \in 1..N : csr.offsets[i] <= csr.offsets[i + 1]
           /\ csr.offsets[N + 1] = Len(csr.targets)
           /\ Len(csr.targets) = Cardinality(in_range)
           /\ \A i \in 0..(N - 1) :
                 /\ CsrAdjacency_get(csr, i) # Panic
                 /\ \A v \in CsrTargets \cup Range(CsrAdjacency_get(csr, i)) :
                       Count(CsrAdjacency_get(csr, i), v) = Cardinality(PairsOf(i, v))

\* two nodes, the pair (0, 7) twice and between them a pair whose source
\* is out of range: node 0 has 7 twice, node 1 has nothing
C20_Witness ==
    /\ IsSome(graph) /\ Len(categories) = 2
    /\ category_graph = <<<<0, 7>>, <<MaxNodes, 1>>, <<0, 7>>>>
    /\ CsrAdjacency_get(Unwrap(graph), 0) = <<7, 7>>
    /\ CsrAdjacency_get(Unwrap(graph), 1) = <<>>

----------------------------------------------------------------------------
(* SpecMap: a DirectMap under every short sequence of inserts.  graph      *)
(* holds the mapping, category_graph the <<key, value>> of the inserts     *)
(* made so far, categories the max_size the map was created with.          *)

\* the most inserts of a run
MaxInserts == 3

\* the sizes the map is created with, the keys (5 is beyond both sizes)
\* and the values of the inserts
MapSizes == {0, 2}
MapKeys == {0, 1, 2, 5}
MapValues == {0, 1, U32_MAX}

\* DirectMap::new(max_size)
InitMap ==
    /\ categories \in {<<n>> : n \in MapSizes}
    /\ articles = <<>>
    /\ category_graph = <<>>
    /\ article_category = <<>>
    /\ graph = Some(DirectMap_new(categories[1]))
    /\ WalkIdle /\ EngineIdle /\ RegistryIdle

\* a call of DirectMap::insert
Insert(key, value) ==
    /\ Len(category_graph) < MaxInserts
    /\ graph' = Some(DirectMap_insert(Unwrap(graph), key, value))
    /\ category_graph' = Append(category_graph, <<key, value>>)
    /\ UNCHANGED <<categories, articles, article_category>>
    /\ UNCHANGED <<walkVars, engineVars, registryVars>>

NextMap == \E key \in MapKeys : \E value \in MapValues : Insert(key, value)

SpecMap == InitMap /\ [][NextMap]_vars

----------------------------------------------------------------------------
(* Claims about DirectMap                                                  *)

\* the value of the most recent insert of key k, if there is one
LastWritten(k) ==
    LET at == {i \in 1..Len(category_graph) : category_graph[i][1] = k} IN
    IF at = {} THEN None
    ELSE Some(category_graph[CHOOSE i \in at : \A j \in at : j <= i][2])

\* the keys looked up: the keys of the inserts and one beyond them all
LookupKeys == MapKeys \cup {6}

\* C21: DirectMap is a last-write-wins map over all 32-bit keys and
\* values: after any sequence of inserts get(k) is Some(v) for the v of the
\* most recent insert(k, v), for every key and every u32 value, and None
\* for every key never inserted, inside or beyond the allocated range; an
\* insert that resizes the map leaves the other keys' values unchanged.
C21_LastWriteWins ==
    \A k \in LookupKeys : DirectMap_get(Unwrap(graph), k) = LastWritten(k)

\* what the map does give: last write wins while no value written is
\* u32::MAX
LastWriteWinsBelowMax ==
    (\A i \in 1..Len(category_graph) : category_graph[i][2] # U32_MAX) =>
        \A k \in LookupKeys : DirectMap_get(Unwrap(graph), k) = LastWritten(k)

----------------------------------------------------------------------------
(* Claims about day vectors of another length than the article count       *)

\* no file of the window lacks the VIEW magic
NoCorruptFile(start_date, end_date) ==
    \A d \in start_date..end_date :
        IsSome(files[d]) => Unwrap(files[d]).magic = "VIEW"

\* every file of the window has been adopted as it is
WindowAdopted(start_date, end_date) ==
    \A d \in start_date..end_date :
        IsSome(files[d]) => daily_views[d] = Some(Unwrap(files[d]).body)

\* C22: a day vector whose length differs from N_articles, shorter or
\* longer, is still adopted, and every query that reads it completes
\* normally: indices beyond the shorter of the two lengths contribute
\* nothing and cause no failure.  Here for top_categories.
C22_AnyLengthIsRead ==
    (LastTop /\ NoCorruptFile(Unwrap(last).key[1], Unwrap(last).key[2])) =>
        /\ ~Unwrap(last).panicked
        /\ WindowAdopted(Unwrap(last).key[1], Unwrap(last).key[2])

\* what the engine does give: the trend and the top articles of a category
\* read vectors of any length (SpecTrend, SpecArticles)
WindowReadsComplete ==
    (IsSome(last) /\ Unwrap(last).op \in {"category_trend", "top_articles_in_category"}
        /\ ArticleSet(Unwrap(last).category_qid, Unwrap(last).depth) # {}
        /\ NoCorruptFile(Unwrap(last).start_date, Unwrap(last).end_date)) =>
        /\ ~Unwrap(last).panicked
        /\ WindowAdopted(Unwrap(last).start_date, Unwrap(last).end_date)

\* and top_categories completes when no vector of the window is longer
\* than the article count
TopCompletesUnlessLonger ==
    (LastTop /\ NoCorruptFile(Unwrap(last).key[1], Unwrap(last).key[2])
        /\ \A d \in Unwrap(last).key[1]..Unwrap(last).key[2] :
              IsSome(files[d]) => Len(Unwrap(files[d]).body) <= Len(articles)) =>
        /\ ~Unwrap(last).panicked
        /\ WindowAdopted(Unwrap(last).key[1], Unwrap(last).key[2])

----------------------------------------------------------------------------
(* SpecEngine: one engine serving queries of every kind while the pipeline *)
(* writes and rewrites the files of the first two days                     *)

\* the windows of the queries and the files the pipeline writes
EngineWindows == {<<1, 1>>, <<1, 2>>, <<2, 2>>}
EngineFiles ==
    {Some([magic |-> "VIEW", body |-> <<1, 2, 4>>]),
     Some([magic |-> "VIEW", body |-> <<2, 1>>]),
     Some([magic |-> "JUNK", body |-> <<>>])}

\* PageViewEngine::new on the snapshot of the test wiki, no day file yet
InitEngine ==
    /\ categories = CatSnapshot
    /\ articles = ArtSnapshot
    /\ category_graph = HierarchyScenario
    /\ article_category = MembershipScenario
    /\ graph = Some(build(categories, articles, category_graph, article_category))
    /\ files = [d \in Dates |-> None]
    /\ daily_views = [d \in Dates |-> None]
    /\ top_categories_cache = TopCategoriesCache_new(0)
    /\ now = 0
    /\ today = NumDays + 1
    /\ last = None
    /\ WalkIdle /\ RegistryIdle

\* the pipeline writes or rewrites the file of a day
WriteFile(d, f) ==
    /\ files[d] # f
    /\ files' = [files EXCEPT ![d] = f]
    /\ UNCHANGED <<daily_views, top_categories_cache, now, today, last>>
    /\ UNCHANGED <<buildVars, walkVars, registryVars>>

\* a call of PageViewEngine::get_article_trend
ArticleTrend(article_qid, start_date, end_date) ==
    /\ EngineAlive
    /\ LET r == get_article_trend(Unwrap(graph), daily_views, files,
                                  article_qid, start_date, end_date)
       IN /\ daily_views' = r.daily_views
          /\ last' = Some([op |-> "article_trend", article_qid |-> article_qid,
                           start_date |-> start_date, end_date |-> end_date,
                           panicked |-> r.panicked, results |-> r.results])
    /\ UNCHANGED <<files, top_categories_cache, now, today>>
    /\ UNCHANGED <<buildVars, walkVars, registryVars>>

\* a call of PageViewEngine::get_top_articles_in_category on an engine in use
TopArticles(category_qid, start_date, end_date, depth, top_n) ==
    /\ EngineAlive
    /\ \E r \in get_top_articles_in_category(Unwrap(graph), daily_views, files,
                    category_qid, start_date, end_date, depth, top_n) :
          /\ daily_views' = r.daily_views
          /\ last' = Some([op |-> "top_articles_in_category",
                           category_qid |-> category_qid, depth |-> depth,
                           start_date |-> start_date, end_date |-> end_date,
                           top_n |-> top_n, panicked |-> r.panicked,
                           result |-> r.result])
    /\ UNCHANGED <<files, top_categories_cache, now, today>>
    /\ UNCHANGED <<buildVars, walkVars, registryVars>>

\* a call of PageViewEngine::clear_top_categories_cache
ClearCache ==
    /\ EngineAlive
    /\ top_categories_cache' = [top_categories_cache EXCEPT !.cache = <<>>]
    /\ last' = Some([op |-> "clear_top_categories_cache", panicked |-> FALSE])
    /\ UNCHANGED <<files, daily_views, now, today>>
    /\ UNCHANGED <<buildVars, walkVars, registryVars>>

\* a call of DeltaService::get_article_delta on an engine in use
EngineArticleDelta(category_qid, windows, limit, depth) ==
    /\ EngineAlive
    /\ \E o \in get_article_delta(Unwrap(graph), daily_views, files, category_qid,
                                  windows, limit, depth) :
          /\ daily_views' = o.daily_views
          /\ last' = DeltaAnswer("article", category_qid, windows, limit, depth, o)
    /\ UNCHANGED <<files, top_categories_cache, now, today>>
    /\ UNCHANGED <<buildVars, walkVars, registryVars>>

NextEngine ==
    \/ \E w \in EngineWindows : \E q \in {3, 0} : CategoryTrend(q, U8_MAX, w[1], w[2])
    \/ \E w \in EngineWindows : EngineArticleDelta(3, <<1, 1, w[1], w[2]>>, 2, U8_MAX)
    \/ \E w \in EngineWindows : ArticleTrend(6, w[1], w[2])
    \/ \E w \in EngineWindows : TopArticles(3, w[1], w[2], U8_MAX, 2)
    \/ \E w \in EngineWindows : TopCategories(w[1], w[2], 3)
    \/ ClearCache
    \/ \E w \in EngineWindows : \E f \in EngineFiles : WriteFile(w[2], f)

SpecEngine == InitEngine /\ [][NextEngine]_vars

----------------------------------------------------------------------------
(* Claims about a query that meets a malformed day file                    *)

\* the dates of the windows of a query
DatesOf(l) ==
    IF l.op = "top_categories" THEN l.key[1]..l.key[2]
    ELSE IF l.op = "clear_top_categories_cache" THEN {}
    ELSE IF l.op = "delta"
         THEN (l.windows[1]..l.windows[2]) \cup (l.windows[3]..l.windows[4])
    ELSE l.start_date..l.end_date

\* the query returned nothing
NothingReturned(l) ==
    IF l.op = "top_articles_in_category" THEN l.result.top_articles = <<>>
    ELSE IF l.op = "delta" THEN l.items = <<>>
    ELSE l.results = <<>>

\* the engine has not panicked
Alive(l) == IF l = None THEN TRUE ELSE ~Unwrap(l).panicked

\* the step is a query that is aborted
Aborts == Alive(last) /\ ~Alive(last')

----------------------------------------------------------------------------
(* Claims about a failed engine build                                      *)

\* C24: a failed engine build for wiki A (missing or malformed snapshot)
\* makes only wiki A unservable: the registry gains no entry for A, and
\* every later get_or_build for any other wiki B, already built or built
\* afterwards, still succeeds.
C24_FailureIsLocal ==
    /\ \A w \in Wikis : ~snapshot_ok[w] => ~IsSome(engines[w])
    /\ \A t \in Tasks :
          (IsSome(task[t].ret) /\ snapshot_ok[task[t].wiki]) => Unwrap(task[t].ret).ok

\* what the registry does give: no entry for a wiki whose build fails, and
\* no failed call before the first failed build
FailureOnlyAfterPanic ==
    /\ \A w \in Wikis : ~snapshot_ok[w] => ~IsSome(engines[w])
    /\ \A t \in Tasks :
          (IsSome(task[t].ret) /\ ~Unwrap(task[t].ret).ok) => engines_lock.poisoned

----------------------------------------------------------------------------
(* Claims about the sweep of the ranking cache                             *)

\* the keys of the cache whose entries have expired at the instant
ExpiredKeys(tc, instant) ==
    {k \in DOMAIN tc.cache : instant - tc.cache[k].created_at > tc.cache[k].ttl}

----------------------------------------------------------------------------
(* Claims about what the queries leave alone                               *)

\* C26: after build no query operation (topology, trend, top-N, delta,
\* cache clear) changes the graph's adjacency lists, membership bitmaps or
\* id maps; and once a day vector has been stored for a date, later queries
\* never reload, overwrite or remove it: the set of loaded dates only grows
\* and the stored vectors are unchanged.
C26_QueriesKeepGraphAndDays ==
    [][/\ graph' = graph
       /\ \A d \in Dates : IsSome(daily_views[d]) => daily_views'[d] = daily_views[d]]_vars

\* the file of day 1 was rewritten after its vector was stored, and a
\* trend over both days has since been served from the stored vector
C26_Witness ==
    /\ IsSome(last) /\ Unwrap(last).op = "category_trend" /\ ~Unwrap(last).panicked
    /\ Unwrap(last).start_date = 1 /\ Unwrap(last).end_date = 2
    /\ daily_views[1] = Some(<<1, 2, 4>>)
    /\ files[1] = Some([magic |-> "VIEW", body |-> <<2, 1>>])
    /\ daily_views[2] = Some(<<2, 1>>)
    /\ Unwrap(last).results = <<<<1, 7>>, <<2, 3>>>>

----------------------------------------------------------------------------
(* Claims about dates without a file                                       *)

\* the step is a category trend that returns rows
TrendServed ==
    /\ files' = files
    /\ IsSome(last') /\ Unwrap(last').op = "category_trend"
    /\ ~Unwrap(last').panicked /\ Unwrap(last').results # <<>>

\* C29: a date whose day file was absent when a query looked for it is not
\* recorded in the day store: every later query whose window contains the
\* date attempts the load again, so once the file appears the next trend
\* query over that date uses its values, whereas a date already loaded is
\* never probed again.
C29_AbsentDatesAreRetried ==
    [][TrendServed =>
          LET l == Unwrap(last')
              A == ArticleSet(l.category_qid, l.depth)
          IN \A i \in 1..Len(l.results) :
                LET d == l.results[i][1] IN
                /\ d = l.start_date + i - 1
                /\ IF IsSome(daily_views[d])
                   THEN /\ daily_views'[d] = daily_views[d]
                        /\ l.results[i][2] = ViewsOf(Unwrap(daily_views[d]), A)
                   ELSE IF IsSome(files[d])
                        THEN /\ daily_views'[d] = Some(Unwrap(files[d]).body)
                             /\ l.results[i][2] = ViewsOf(Unwrap(files[d]).body, A)
                        ELSE /\ ~IsSome(daily_views'[d])
                             /\ l.results[i][2] = 0]_vars

\* a trend over both days of an engine that started without day files:
\* day 1 still has none, counts 0 and is not recorded; the file of day 2
\* has been written since and is loaded and counted
C29_Witness ==
    /\ IsSome(last) /\ Unwrap(last).op = "category_trend" /\ ~Unwrap(last).panicked
    /\ Unwrap(last).start_date = 1 /\ Unwrap(last).end_date = 2
    /\ ~IsSome(daily_views[1]) /\ ~IsSome(files[1])
    /\ daily_views[2] = Some(<<1, 2, 4>>)
    /\ Unwrap(last).results = <<<<1, 0>>, <<2, 7>>>>

----------------------------------------------------------------------------
(* SpecSum: the aggregation phase of the first ranking of a new engine,    *)
(* over day files whose counts reach the top of the u32 range              *)

\* the day vectors of the files: one count per article of the snapshot
WideBodies == {<<U32_MAX, 1, 0>>, <<1, 2, 4>>, <<1, U32_MAX - 1, 0>>, <<0, 0, 0>>, <<2, 2, 2>>}

InitSum ==
    /\ categories = CatSnapshot
    /\ articles = ArtSnapshot
    /\ category_graph = HierarchyScenario
    /\ article_category = MembershipScenario
    /\ graph = Some(build(categories, articles, category_graph, article_category))
    /\ files \in [Dates -> {None} \cup {Some([magic |-> "VIEW", body |-> b]) : b \in WideBodies}]
    /\ daily_views = [d \in Dates |-> None]
    /\ top_categories_cache = TopCategoriesCache_new(0)
    /\ now = 0
    /\ today = NumDays
    /\ last = None
    /\ WalkIdle /\ RegistryIdle

\* phase 1 of PageViewEngine::get_top_categories after a cache miss: the
\* window is loaded and summed into article_views
AggregateWindow(start_date, end_date) ==
    /\ last = None
    /\ LET loaded == load_history_for_date_range(daily_views, files, start_date, end_date)
           summed == aggregate_days(loaded.daily_views, start_date, end_date,
                                    [i \in 1..Len(articles) |-> 0])
       IN /\ daily_views' = loaded.daily_views
          /\ last' = Some([op |-> "top_categories_aggregation",
                           start_date |-> start_date, end_date |-> end_date,
                           panicked |-> loaded.panicked \/ summed.panicked,
                           article_views |-> summed.article_views])
    /\ UNCHANGED <<files, top_categories_cache, now, today>>
    /\ UNCHANGED <<buildVars, walkVars, registryVars>>

NextSum == \E s \in Dates : \E e \in Dates : AggregateWindow(s, e)

SpecSum == InitSum /\ [][NextSum]_vars

----------------------------------------------------------------------------
(* Claims about the per-article totals of a ranking                        *)

LastSum == IsSome(last) /\ Unwrap(last).op = "top_categories_aggregation"

\* C27: in top_categories the per-article window total that is scattered
\* into the category totals equals the exact sum of the article's daily
\* views over all loaded days of the window, for every window length and
\* every 32-bit daily value: the accumulation neither wraps around nor
\* fails when the sum exceeds 2^32 - 1, and so agrees with the 64-bit total
\* that top_articles_in_category computes for the same article and window.
C27_ExactArticleTotals ==
    LastSum =>
        /\ ~Unwrap(last).panicked
        /\ \A a \in 0..(Len(articles) - 1) :
              Unwrap(last).article_views[a + 1] =
                  article_window_total(daily_views, a, Unwrap(last).start_date,
                                       Unwrap(last).end_date, 0)

\* what the aggregation does give: the exact totals while they fit a u32
ExactWhileInRange ==
    (LastSum /\ \A a \in 0..(Len(articles) - 1) :
                    article_window_total(daily_views, a, Unwrap(last).start_date,
                                         Unwrap(last).end_date, 0) <= U32_MAX) =>
        /\ ~Unwrap(last).panicked
        /\ \A a \in 0..(Len(articles) - 1) :
              Unwrap(last).article_views[a + 1] =
                  article_window_total(daily_views, a, Unwrap(last).start_date,
                                       Unwrap(last).end_date, 0)

----------------------------------------------------------------------------
(* Claims about the total of a top-articles answer                         *)

LastTopArticles ==
    IsSome(last) /\ Unwrap(last).op = "top_articles_in_category" /\ ~Unwrap(last).panicked

\* C28: the total_views of the CategoryRank returned by
\* top_articles_in_category is the sum of the totals of the (at most N)
\* returned top articles only, not the total of all the articles of the
\* category; it is 0 with an empty article list when the category is
\* unknown or has no member articles, and then no day file is loaded.
C28_TotalOfReturned ==
    LastTopArticles =>
        LET l == Unwrap(last)
            R == l.result.top_articles
        IN /\ l.result.category_qid = l.category_qid
           /\ l.result.total_views = SetSum(1..Len(R), [i \in 1..Len(R) |-> R[i].total_views])
           /\ ArticleSet(l.category_qid, l.depth) = {} =>
                 /\ l.result.total_views = 0
                 /\ R = <<>>
                 /\ \A d \in Dates : ~IsSome(daily_views[d])

\* the best one of three articles with views: the total is its 4 views,
\* not the 7 of the category
C28_Witness ==
    /\ LastTopArticles /\ Unwrap(last).top_n = 1
    /\ Unwrap(last).start_date = Unwrap(last).end_date
    /\ daily_views[Unwrap(last).start_date] = Some(<<1, 2, 4>>)
    /\ Cardinality(ArticleSet(Unwrap(last).category_qid, Unwrap(last).depth)) = 3
    /\ Len(Unwrap(last).result.top_articles) = 1
    /\ Unwrap(last).result.total_views = 4

\* an unknown category and a category without member articles: nothing is
\* loaded although the window has a file
EmptyCategoryReached ==
    /\ LastTopArticles
    /\ ArticleSet(Unwrap(last).category_qid, Unwrap(last).depth) = {}
    /\ \E d \in Unwrap(last).start_date..Unwrap(last).end_date : IsSome(files[d])

----------------------------------------------------------------------------
(* SpecShared: concurrent top_categories requests on one engine, as        *)
(* PageViewService::get_top_categories_raw serves them.  Here engines_lock *)
(* is the RwLock of the engine and task[t] the request of task t:          *)
(* [pc, key, ret].                                                         *)

InitShared ==
    /\ categories = CatSnapshot
    /\ articles = ArtSnapshot
    /\ category_graph = HierarchyScenario
    /\ article_category = MembershipScenario
    /\ graph = Some(build(categories, articles, category_graph, article_category))
    /\ files \in [Dates -> DayFiles]
    /\ daily_views = [d \in Dates |-> None]
    /\ top_categories_cache = TopCategoriesCache_new(0)
    /\ now = 0
    /\ today = NumDays
    /\ last = None
    /\ walk = None
    /\ engines = <<>>
    /\ engines_lock = [holder |-> None, poisoned |-> FALSE]
    /\ task = [t \in Tasks |-> [pc |-> "idle", key |-> <<1, 1, 3>>, ret |-> None]]
    /\ constructed = <<>>
    /\ snapshot_ok = <<>>

\* a request for a ranking arrives
Request(t, key) ==
    /\ task[t].pc = "idle"
    /\ task' = [task EXCEPT ![t] = [pc |-> "write", key |-> key, ret |-> None]]
    /\ UNCHANGED <<engines, engines_lock, constructed, snapshot_ok>>
    /\ UNCHANGED <<buildVars, walkVars, engineVars>>

\* engine.write(): an error on a poisoned lock, else the guard once the
\* lock is free
EngineWrite(t) ==
    /\ task[t].pc = "write"
    /\ IF engines_lock.poisoned
       THEN /\ task' = [task EXCEPT ![t].pc = "done",
                                    ![t].ret = Some([ok |-> FALSE, hit |-> FALSE,
                                                     results |-> <<>>])]
            /\ UNCHANGED engines_lock
       ELSE /\ write_granted(engines_lock)
            /\ engines_lock' = [engines_lock EXCEPT !.holder = Some(t)]
            /\ task' = [task EXCEPT ![t].pc = "get"]
    /\ UNCHANGED <<engines, constructed, snapshot_ok>>
    /\ UNCHANGED <<buildVars, walkVars, engineVars>>

\* get_top_categories up to the cache check: a fresh entry is returned and
\* the guard dropped, else the request goes on to compute
CacheCheck(t) ==
    /\ task[t].pc = "get"
    /\ LET cached_result == TopCategoriesCache_get(top_categories_cache, task[t].key, now) IN
       IF IsSome(cached_result)
       THEN /\ task' = [task EXCEPT ![t].pc = "done",
                                    ![t].ret = Some([ok |-> TRUE, hit |-> TRUE,
                                                     results |-> Unwrap(cached_result)])]
            /\ engines_lock' = [engines_lock EXCEPT !.holder = None]
       ELSE /\ task' = [task EXCEPT ![t].pc = "compute"]
            /\ UNCHANGED engines_lock
    /\ UNCHANGED <<engines, constructed, snapshot_ok>>
    /\ UNCHANGED <<buildVars, walkVars, engineVars>>

\* get_top_categories after the miss: the ranking is computed, stored and
\* returned and the guard dropped; a panic poisons the lock
ComputeAndStore(t) ==
    /\ task[t].pc = "compute"
    /\ LET key == task[t].key
           r == compute_top_categories(Unwrap(graph), daily_views, files,
                                       key[1], key[2], key[3])
       IN /\ daily_views' = r.daily_views
          /\ IF r.panicked
             THEN /\ engines_lock' = [holder |-> None, poisoned |-> TRUE]
                  /\ task' = [task EXCEPT ![t].pc = "done",
                                          ![t].ret = Some([ok |-> FALSE, hit |-> FALSE,
                                                           results |-> <<>>])]
                  /\ UNCHANGED top_categories_cache
             ELSE /\ top_categories_cache' =
                         TopCategoriesCache_insert(top_categories_cache, key,
                                                   r.results, now, today)
                  /\ engines_lock' = [engines_lock EXCEPT !.holder = None]
                  /\ task' = [task EXCEPT ![t].pc = "done",
                                          ![t].ret = Some([ok |-> TRUE, hit |-> FALSE,
                                                           results |-> r.results])]
    /\ UNCHANGED <<files, now, today, last>>
    /\ UNCHANGED <<engines, constructed, snapshot_ok>>
    /\ UNCHANGED <<buildVars, walkVars>>

NextShared ==
    \/ \E t \in Tasks : \E key \in CacheKeys : Request(t, key)
    \/ \E t \in Tasks : EngineWrite(t)
    \/ \E t \in Tasks : CacheCheck(t)
    \/ \E t \in Tasks : ComputeAndStore(t)

SpecShared == InitShared /\ [][NextShared]_vars

----------------------------------------------------------------------------
(* Claims about concurrent requests on one engine                          *)

\* the requests for key that have returned a ranking
Served(key) ==
    {t \in Tasks : task[t].key = key /\ IsSome(task[t].ret) /\ Unwrap(task[t].ret).ok}

\* C30: every access that can mutate an engine's day store or
\* top-categories cache runs while holding the engine's exclusive lock, so
\* for any interleaving of concurrent identical top_categories(start, end,
\* N) requests on one engine within the entry's TTL the ranking is
\* computed at most once: the first request computes and stores it, and
\* all others observe the stored entry and return the same result.
C30_ComputedOnce ==
    /\ \A t \in Tasks :
          task[t].pc \in {"get", "compute"} => engines_lock.holder = Some(t)
    /\ \A key \in CacheKeys :
          /\ Cardinality({t \in Served(key) : ~Unwrap(task[t].ret).hit}) <= 1
          /\ Served(key) # {} =>
                /\ key \in DOMAIN top_categories_cache.cache
                /\ \A t \in Served(key) :
                      Unwrap(task[t].ret).results = top_categories_cache.cache[key].data
    /\ \A t \in Tasks :
          (IsSome(task[t].ret) /\ ~Unwrap(task[t].ret).ok) => engines_lock.poisoned

\* two requests for the same ranking, both served: one computed it, the
\* other found it in the cache
C30_Witness ==
    \E t1 \in Tasks : \E t2 \in Tasks :
        /\ t1 # t2 /\ task[t1].key = task[t2].key
        /\ t1 \in Served(task[t1].key) /\ t2 \in Served(task[t2].key)
        /\ ~Unwrap(task[t1].ret).hit /\ Unwrap(task[t2].ret).hit
        /\ \E d \in Dates : IsSome(daily_views[d])

====
